---- MODULE Spec2Model ----
(***************************************************************************)
(* The HTTP service decorator chain of services/http_service.ts:           *)
(*   RetryDecorator -> TimingDecorator -> LoggingDecorator ->              *)
(*   BasicHttpService -> axios                                             *)
(* together with the Logger singleton the decorators append to.            *)
(*                                                                         *)
(* One call is an async operation.  It runs synchronously from the caller  *)
(* down to the axios request, is suspended there, and its continuations    *)
(* (one per layer) run one after the other when the request settles.  The  *)
(* retry loop suspends a second time in the backoff timer.  Each           *)
(* continuation is one action.                                             *)
(***************************************************************************)
EXTENDS Integers, Sequences, FiniteSets, TLC

VARIABLES
    maxRetries,   \* RetryDecorator.maxRetries (constructor argument)
    httpService,  \* per instance: each layer's httpService / axiosInstance field
    instance,     \* per call: the composed service the call was issued on
    pc,           \* per call: where the async call is suspended
    req,          \* per call: the arguments the caller passed
    attempt,      \* per call: the loop variable of retryOperation
    start,        \* per call: measureTime's start timestamp of the attempt
    response,     \* per call: the settled axios promise of the attempt
    settled,      \* per call: the settlement travelling up the chain
    timer,        \* per call: deadline of the pending setTimeout, -1 if none
    outcome,      \* per call: what the caller's promise settled with
    now,          \* the clock (ms) read by performance.now() and Date
    logs,         \* Logger.logs
    writers,      \* for each record of Logger.logs, the call that logged it (spy)
    transport,    \* the requests the axios instance has received
    hist,         \* per call: layer invocations, settlements, timers (spy)
    Logger_instance,  \* the static field Logger.instance, 0 while undefined
    constructed,  \* how often the constructor of Logger has run (spy)
    handles,      \* what the calls of Logger.getInstance() returned (spy)
    snapshots,    \* the lists Logger.getLogs() returned, as their holders see them
    lastOp,       \* the last operation done on the logger or on a returned list
    windowApiUrl, \* window.API_URL, "" while undefined
    viteApiUrl,   \* import.meta.env.VITE_API_URL, "" while undefined
    API_BASE_URL, \* per resource client: its module constant, "unloaded" before
    crudCall,     \* the pending operation of a resource client
    axiosRequests,\* the requests the resource clients passed to axios (spy)
    conv,         \* a conversion of the adapters: argument, result, way back
    adapterCall,  \* the pending operation of the OldAPIAdapter
    oldClientCalls \* the calls the OldAPIClient has received (spy)

\* the state of the decorator chain
httpVars == <<maxRetries, httpService, instance, pc, req, attempt, start,
              response, settled, timer, outcome, transport, hist>>
\* the clock and the log, shared by everything that logs
logVars == <<now, logs, writers>>
loggerVars == <<Logger_instance, constructed, handles, snapshots, lastOp>>
crudVars == <<windowApiUrl, viteApiUrl, API_BASE_URL, crudCall, axiosRequests>>
adapterVars == <<conv, adapterCall, oldClientCalls>>
\* what a call through the decorator chain leaves alone

vars == <<httpVars, logVars, loggerVars, crudVars, adapterVars>>

----------------------------------------------------------------------------
(* Bounds *)

\* largest maxRetries a RetryDecorator is constructed with
MaxRetriesBound == 3
\* number of call slots
NumCalls == 2

(* Program constants *)

\* default of the constructor parameter maxRetries
DefaultMaxRetries == 3
\* setTimeout(resolve, 1000 * attempt)
BackoffUnitMs == 1000

CallIds == 1..NumCalls
\* the call the single-call specification issues
Caller == 1
\* the composed services constructed (createHttpService called twice)
Instances == {"A", "B"}
NoInstance == "none"

Verbs == {"GET", "POST", "PUT", "DELETE"}
BodyVerbs == {"POST", "PUT"}
Urls == {"/games", "/teams"}
NoData == "undefined"
Bodies == {NoData, "body1"}
Configs == {"undefined", "cfg1"}
Payloads == {"p1", "p2"}
ErrorMessages == {"timeout", "status 500"}
\* time a transport request takes before it settles
NetLatencies == {0, 7}
\* maxRetries values a RetryDecorator is constructed with (integers)
RetryBudgets == (-1)..MaxRetriesBound

----------------------------------------------------------------------------
(* Values *)

NoErr == [kind |-> "none", msg |-> "", id |-> <<0, 0>>]
\* the error object a failed transport request of call c, attempt n rejects
\* with; id stands for the object's identity
TransportError(c, n, m) == [kind |-> "AxiosError", msg |-> m, id |-> <<c, n>>]
\* new Error("Retry operacija neuspjesna") (diacritics dropped); it belongs
\* to no attempt, hence attempt 0
RetryExhaustedError(c) ==
    [kind |-> "Error", msg |-> "Retry operacija neuspjesna", id |-> <<c, 0>>]

NoReq == [verb |-> "", url |-> "", data |-> NoData, config |-> "undefined"]
NoResponse == [ok |-> FALSE, data |-> "", status |-> 0, err |-> NoErr]
Pending == [state |-> "pending", val |-> "", err |-> NoErr]
Fulfilled(v) == [state |-> "fulfilled", val |-> v, err |-> NoErr]
Rejected(e) == [state |-> "rejected", val |-> "", err |-> e]

\* `${error}`: the string conversion keeps name and message, not identity
ErrorToString(e) == <<e.kind, e.msg>>

\* one record of Logger.logs; the message is kept as the template and the
\* values interpolated into it
Message(tmpl, verb, url, err, num) ==
    [tmpl |-> tmpl, verb |-> verb, url |-> url, err |-> err, num |-> num]
LogEntry(t, level, message) ==
    [timestamp |-> t, level |-> level, message |-> message]

\* one observation of a call: a layer invoked, a layer's promise settled,
\* a timer set, a timer fired.  at is the time and nlog the number of log
\* records written when it happened.
Ev(ev, layer, att, args, out, ms, t, nl) ==
    [ev |-> ev, layer |-> layer, att |-> att, args |-> args, out |-> out,
     ms |-> ms, at |-> t, nlog |-> nl]
Invoke(layer, att, args, t, nl) ==
    Ev("invoke", layer, att, args, Pending, 0, t, nl)
Settle(layer, att, out, t, nl) ==
    Ev("settle", layer, att, NoReq, out, 0, t, nl)

----------------------------------------------------------------------------
(* Logger *)

\* mutant: the log keeps the newest record only (this.logs = [logEntry])
LogKeepsNewest(l, t, level, message) == <<LogEntry(t, level, message)>>
\* mutant: unshift instead of push
LogUnshift(l, t, level, message) == <<LogEntry(t, level, message)>> \o l
\* Logger.log: push one record
Log(l, t, level, message) == Append(l, LogEntry(t, level, message))
info(l, t, message) == Log(l, t, "INFO", message)
warn(l, t, message) == Log(l, t, "WARN", message)
error(l, t, message) == Log(l, t, "ERROR", message)
debug(l, t, message) == Log(l, t, "DEBUG", message)

\* a message that is not one of the decorators' templates
Text(text) == Message(text, "", "", <<>>, 0)

\* mutant: every call constructs a Logger
getInstanceAlwaysNew(inst, made) ==
    [instance |-> made + 1, constructed |-> made + 1]
\* Logger.getInstance: construct on the first call only, return the field
getInstance(inst, made) ==
    IF inst = 0
    THEN [instance |-> made + 1, constructed |-> made + 1]
    ELSE [instance |-> inst, constructed |-> made]

\* mutant: the list is emptied and nothing is logged
clearLogsSilent(l, t) == <<>>
\* Logger.clearLogs: this.logs = []; this.info("Logovi su obrisani")
clearLogs(l, t) == info(<<>>, t, Text("Logovi su obrisani"))

\* a list handed out by the logger: alias says it is the array this.logs
\* itself, items is its content when it is an array of its own
\* mutant: the stored array itself is returned
getLogsStored(l) == [alias |-> TRUE, items |-> l]
\* Logger.getLogs: return [...this.logs]
getLogs(l) == [alias |-> FALSE, items |-> l]
\* what the holder of a returned list reads from it
ContentOf(s, l) == IF s.alias THEN l ELSE s.items

----------------------------------------------------------------------------
(* The composition *)

\* mutant: the decorators stacked in the other order (Logging around Timing)
createHttpServiceSwapped ==
    [retry |-> "logging", logging |-> "timing", timing |-> "basic",
     basic |-> "axios"]
\* mutant: the Logging layer left out of the stack
createHttpServiceNoLogging ==
    [retry |-> "timing", timing |-> "basic", logging |-> "basic",
     basic |-> "axios"]
\* createHttpService: for each layer the service it holds and delegates to;
\* the Retry layer is the one returned
createHttpService ==
    [retry |-> "timing", timing |-> "logging", logging |-> "basic",
     basic |-> "axios"]

RECURSIVE Below(_, _)
\* the layers a call passes on its way down from layer l, axios last
Below(svc, l) ==
    IF l = "axios" THEN <<>> ELSE <<svc[l]>> \o Below(svc, svc[l])
\* the layers below the Retry layer, in the order a call enters them
Chain(svc) == Below(svc, "retry")
\* position of a layer in the chain, 0 if it is not part of it
Position(svc, l) ==
    IF \E i \in DOMAIN Chain(svc) : Chain(svc)[i] = l
    THEN CHOOSE i \in DOMAIN Chain(svc) : Chain(svc)[i] = l
    ELSE 0
\* the layer that holds l as its httpService: where l's promise settles to
Wrapper(svc, l) ==
    IF Position(svc, l) <= 1 THEN "retry" ELSE Chain(svc)[Position(svc, l) - 1]

\* this.httpService.get(url, config) / .post(url, data, config) / ...:
\* the arguments a verb method hands to the same verb of its delegate
Delegated(r) ==
    [verb |-> r.verb, url |-> r.url,
     data |-> IF r.verb \in BodyVerbs THEN r.data ELSE NoData,
     config |-> r.config]
\* RetryDecorator.get/post/put/delete: the operation closure
RetryForward(r) == Delegated(r)
\* mutant: the options are not handed on (this.httpService.get(url))
TimingForwardNoConfig(r) ==
    [verb |-> r.verb, url |-> r.url,
     data |-> IF r.verb \in BodyVerbs THEN r.data ELSE NoData,
     config |-> "undefined"]
\* TimingDecorator.get/post/put/delete: the fn closure
TimingForward(r) == Delegated(r)
\* LoggingDecorator.get/post/put/delete
LoggingForward(r) == Delegated(r)
\* BasicHttpService: this.axiosInstance.get(url, config) / ...
BasicRequest(r) == Delegated(r)
Forward(l, r) ==
    CASE l = "retry" -> RetryForward(r)
      [] l = "timing" -> TimingForward(r)
      [] l = "logging" -> LoggingForward(r)
      [] l = "basic" -> BasicRequest(r)
RECURSIVE ArgsAt(_, _, _)
\* the arguments the i-th layer of the chain is called with when the
\* caller passed r
ArgsAt(svc, r, i) ==
    IF i = 1 THEN Forward("retry", r)
    ELSE Forward(Chain(svc)[i - 1], ArgsAt(svc, r, i - 1))

----------------------------------------------------------------------------
(* The decisions of the decorators *)

\* mutant: the counter is a field of the decorator, not reset by a call
FirstAttemptCarried(c) ==
    1 + Cardinality({d \in CallIds : d # c /\ attempt[d] > 0})
\* let attempt = 1
FirstAttempt(c) == 1
\* mutant: the counter is a field shared by the calls in flight
NextAttemptShared(c) ==
    1 + (CHOOSE m \in {attempt[d] : d \in CallIds} :
            \A d \in CallIds : attempt[d] <= m)
\* attempt++
NextAttempt(c) == attempt[c] + 1
\* mutant: the timer callback never calls resolve
BackoffResolvesNever(c) == FALSE
\* await new Promise((resolve) => setTimeout(resolve, ...)): the promise of
\* call c resolves when its timer fires; timers fire in deadline order
BackoffResolves(c) ==
    /\ pc[c] = "backoff"
    /\ \A d \in CallIds : pc[d] = "backoff" => timer[c] <= timer[d]

\* mutant: the loop runs one pass too many (attempt <= maxRetries + 1)
LoopContinuesOneMore(att, mr) == att <= mr + 1
\* the loop condition of retryOperation
LoopContinues(att, mr) == att <= mr
\* mutant: gives up one attempt early
IsLastAttemptEarly(att, mr) == att + 1 = mr
\* mutant: gives up after the first failure
IsLastAttemptFirst(att, mr) == att = 1
\* mutant: the last attempt is not recognised (attempt === maxRetries + 1)
IsLastAttemptLate(att, mr) == att = mr + 1
\* if (attempt === this.maxRetries)
IsLastAttempt(att, mr) == att = mr
\* mutant: a constant delay (setTimeout(resolve, 1000))
BackoffDelayConstant(att) == BackoffUnitMs
\* setTimeout(resolve, 1000 * attempt)
BackoffDelay(att) == BackoffUnitMs * att
\* mutant: the rejection is caught and a new Error thrown
BasicResultWrapped(resp) ==
    IF resp.ok THEN Fulfilled(resp.data)
    ELSE Rejected([kind |-> "Error", msg |-> resp.err.msg, id |-> <<0, 0>>])
\* BasicHttpService: return response.data, or the rejection as it is
BasicResult(resp) ==
    IF resp.ok THEN Fulfilled(resp.data) ELSE Rejected(resp.err)
\* mutant: the catch block throws a new Error built from the message
LoggingResultWrapped(p) ==
    IF p.state = "rejected"
    THEN Rejected([kind |-> "Error", msg |-> p.err.msg, id |-> <<0, 0>>])
    ELSE p
\* LoggingDecorator: return result / throw error
LoggingResult(p) == p
\* mutant: the success record is missing
LoggingAfterNoSuccess(l, t, r, p) ==
    IF p.state = "fulfilled"
    THEN l
    ELSE error(l, t, Message("failure", r.verb, r.url, ErrorToString(p.err), 0))
\* LoggingDecorator: the entry written when the delegate has settled
LoggingAfter(l, t, r, p) ==
    IF p.state = "fulfilled"
    THEN info(l, t, Message("success", r.verb, r.url, <<>>, 0))
    ELSE error(l, t, Message("failure", r.verb, r.url, ErrorToString(p.err), 0))
\* mutant: the duration is logged in a finally(), on both paths
TimingAfterFinally(l, t, r, p, t0) ==
    debug(l, t, Message("timing", r.verb, "", <<>>, t - t0))
\* mutant: the difference taken the wrong way round (start - end)
TimingAfterReversed(l, t, r, p, t0) ==
    IF p.state = "fulfilled"
    THEN debug(l, t, Message("timing", r.verb, "", <<>>, t0 - t))
    ELSE l
\* measureTime: fn().then(cb) runs cb only when fn() is fulfilled
TimingAfter(l, t, r, p, t0) ==
    IF p.state = "fulfilled"
    THEN debug(l, t, Message("timing", r.verb, "", <<>>, t - t0))
    ELSE l
\* mutant: cb forgets to return result
TimingResultVoid(p) == IF p.state = "fulfilled" THEN Fulfilled("") ELSE p
\* measureTime: cb returns result; a rejection passes through then()
TimingResult(p) == p
\* retryOperation: return await operation() / throw error
RetryResult(p) == p

----------------------------------------------------------------------------
TypeOK ==
    /\ maxRetries \in RetryBudgets
    /\ pc \in [CallIds -> {"idle", "net", "basic", "logging", "timing",
                           "retry", "backoff", "resolved", "rejected"}]
    /\ attempt \in [CallIds -> Nat]
    /\ timer \in [CallIds -> Int]
    /\ now \in Nat

\* the resource clients (services/*_service.ts)
Resources == {"games", "teams", "tournaments", "news"}
NoCrudCall ==
    [pc |-> "idle", n |-> 0, res |-> "", op |-> "", id |-> 0, data |-> NoData,
     response |-> NoResponse, outcome |-> Pending]
NoAdapterCall ==
    [pc |-> "idle", op |-> "", arg |-> <<>>, response |-> NoResponse,
     outcome |-> Pending]

\* logger.ts has been evaluated: its default export is Logger.getInstance()
LoggerLoaded ==
    /\ Logger_instance = getInstance(0, 0).instance
    /\ constructed = getInstance(0, 0).constructed
    /\ handles = <<getInstance(0, 0).instance>>
    /\ snapshots = <<>>
    /\ lastOp = "getInstance"
\* no resource client module has been evaluated
CrudIdle ==
    /\ windowApiUrl = ""
    /\ viteApiUrl = ""
    /\ API_BASE_URL = [r \in Resources |-> "unloaded"]
    /\ crudCall = NoCrudCall
    /\ axiosRequests = <<>>
\* no adapter is in use
AdaptersIdle ==
    /\ conv = [kind |-> "none", stage |-> 0, arg |-> <<>>, given |-> <<>>,
               mid |-> <<>>, back |-> <<>>]
    /\ adapterCall = NoAdapterCall
    /\ oldClientCalls = <<>>

\* no composed service has been called
HttpIdle ==
    /\ httpService = [i \in Instances |-> createHttpService]
    /\ instance = [c \in CallIds |-> NoInstance]
    /\ pc = [c \in CallIds |-> "idle"]
    /\ req = [c \in CallIds |-> NoReq]
    /\ attempt = [c \in CallIds |-> 0]
    /\ start = [c \in CallIds |-> 0]
    /\ response = [c \in CallIds |-> NoResponse]
    /\ settled = [c \in CallIds |-> Pending]
    /\ timer = [c \in CallIds |-> -1]
    /\ outcome = [c \in CallIds |-> Pending]
    /\ now = 0
    /\ logs = <<>>
    /\ writers = <<>>
    /\ transport = <<>>
    /\ hist = [c \in CallIds |-> <<>>]

Init ==
    /\ LoggerLoaded
    /\ CrudIdle
    /\ AdaptersIdle
    /\ maxRetries \in RetryBudgets
    /\ HttpIdle

\* One pass of the loop body down to the axios request on the service svc:
\* operation() calls the layers of the chain one inside the other
\* (TimingDecorator takes start = performance.now(), LoggingDecorator writes
\* the "zahtjev" entry, BasicHttpService issues the request).  h is the
\* call's observations so far, t the current time.
Attempt(c, svc, n, r, h, t) ==
    LET chain == Chain(svc)
        lg == Position(svc, "logging")
        \* records written when the i-th layer of the chain is called
        nl(i) == Len(logs) + (IF lg > 0 /\ lg < i THEN 1 ELSE 0)
    IN  /\ attempt' = [attempt EXCEPT ![c] = n]
        /\ start' = [start EXCEPT ![c] = t]
        /\ logs' = IF lg > 0
                   THEN info(logs, t, Message("request", ArgsAt(svc, r, lg).verb,
                                              ArgsAt(svc, r, lg).url, <<>>, 0))
                   ELSE logs
        /\ writers' = IF lg > 0 THEN Append(writers, c) ELSE writers
        /\ transport' = Append(transport,
                               [call |-> c, att |-> n,
                                args |-> ArgsAt(svc, r, Len(chain))])
        /\ hist' = [hist EXCEPT ![c] =
                      h \o [i \in 1..Len(chain) |->
                              Invoke(chain[i], n, ArgsAt(svc, r, i), t, nl(i))]]
        /\ pc' = [pc EXCEPT ![c] = "net"]
        /\ UNCHANGED <<outcome, timer>>

\* The loop of retryOperation ended without return or throw:
\* throw new Error("Retry operacija neuspjesna")
Exhausted(c, n, h, t) ==
    /\ attempt' = [attempt EXCEPT ![c] = n]
    /\ outcome' = [outcome EXCEPT ![c] = Rejected(RetryExhaustedError(c))]
    /\ hist' = [hist EXCEPT ![c] =
                  Append(h, Settle("retry", n, Rejected(RetryExhaustedError(c)),
                                   t, Len(logs)))]
    /\ pc' = [pc EXCEPT ![c] = "rejected"]
    /\ UNCHANGED <<start, logs, writers, transport, timer>>

\* RetryDecorator.get/post/put/delete: the caller issues a call on the
\* composed service i
Call(c, i, verb, url, data, config) ==
    /\ UNCHANGED <<loggerVars, crudVars, adapterVars>>
    /\ pc[c] = "idle"
    /\ instance' = [instance EXCEPT ![c] = i]
    /\ LET r == [verb |-> verb, url |-> url, data |-> data, config |-> config]
           h == <<Invoke("retry", 0, r, now, Len(logs))>>
       IN  /\ req' = [req EXCEPT ![c] = r]
           /\ IF LoopContinues(FirstAttempt(c), maxRetries)
              THEN Attempt(c, httpService[i], FirstAttempt(c), r, h, now)
              ELSE Exhausted(c, FirstAttempt(c), h, now)
    /\ UNCHANGED <<maxRetries, httpService, response, settled, now>>

\* the axios request of the attempt is answered with a 2xx response
TransportResolve(c, p, d) ==
    /\ UNCHANGED <<loggerVars, crudVars, adapterVars>>
    /\ pc[c] = "net"
    /\ now' = now + d
    /\ response' = [response EXCEPT ![c] =
                      [ok |-> TRUE, data |-> p, status |-> 200, err |-> NoErr]]
    /\ hist' = [hist EXCEPT ![c] =
                  Append(@, Settle("axios", attempt[c], Fulfilled(p), now', Len(logs)))]
    /\ pc' = [pc EXCEPT ![c] = "basic"]
    /\ UNCHANGED <<maxRetries, httpService, instance, req, attempt, start,
                   settled, timer, outcome, logs, writers, transport>>

\* the axios request of the attempt fails (network error or non-2xx)
TransportReject(c, m, d) ==
    /\ UNCHANGED <<loggerVars, crudVars, adapterVars>>
    /\ pc[c] = "net"
    /\ now' = now + d
    /\ LET e == TransportError(c, attempt[c], m)
       IN  /\ response' = [response EXCEPT ![c] =
                      [ok |-> FALSE, data |-> "", status |-> 0, err |-> e]]
           /\ hist' = [hist EXCEPT ![c] =
                  Append(@, Settle("axios", attempt[c], Rejected(e), now', Len(logs)))]
    /\ pc' = [pc EXCEPT ![c] = "basic"]
    /\ UNCHANGED <<maxRetries, httpService, instance, req, attempt, start,
                   settled, timer, outcome, logs, writers, transport>>

\* BasicHttpService.get/post/put/delete after its await
BasicSettle(c) ==
    /\ UNCHANGED <<loggerVars, crudVars, adapterVars>>
    /\ pc[c] = "basic"
    /\ settled' = [settled EXCEPT ![c] = BasicResult(response[c])]
    /\ hist' = [hist EXCEPT ![c] =
                  Append(@, Settle("basic", attempt[c], settled'[c], now,
                                   Len(logs)))]
    /\ pc' = [pc EXCEPT ![c] = Wrapper(httpService[instance[c]], "basic")]
    /\ UNCHANGED <<maxRetries, httpService, instance, req, attempt, start,
                   response, timer, outcome, now, logs, writers, transport>>

\* LoggingDecorator.get/post/put/delete after its await
LoggingSettle(c) ==
    /\ UNCHANGED <<loggerVars, crudVars, adapterVars>>
    /\ pc[c] = "logging"
    /\ logs' = LoggingAfter(logs, now, req[c], settled[c])
    /\ writers' = writers \o [i \in 1..(Len(logs') - Len(logs)) |-> c]
    /\ settled' = [settled EXCEPT ![c] = LoggingResult(settled[c])]
    /\ hist' = [hist EXCEPT ![c] =
                  Append(@, Settle("logging", attempt[c], settled'[c], now,
                                   Len(logs')))]
    /\ pc' = [pc EXCEPT ![c] = Wrapper(httpService[instance[c]], "logging")]
    /\ UNCHANGED <<maxRetries, httpService, instance, req, attempt, start,
                   response, timer, outcome, now, transport>>

\* TimingDecorator.measureTime when fn() has settled
TimingSettle(c) ==
    /\ UNCHANGED <<loggerVars, crudVars, adapterVars>>
    /\ pc[c] = "timing"
    /\ logs' = TimingAfter(logs, now, req[c], settled[c], start[c])
    /\ writers' = writers \o [i \in 1..(Len(logs') - Len(logs)) |-> c]
    /\ settled' = [settled EXCEPT ![c] = TimingResult(settled[c])]
    /\ hist' = [hist EXCEPT ![c] =
                  Append(@, Settle("timing", attempt[c], settled'[c], now,
                                   Len(logs')))]
    /\ pc' = [pc EXCEPT ![c] = Wrapper(httpService[instance[c]], "timing")]
    /\ UNCHANGED <<maxRetries, httpService, instance, req, attempt, start,
                   response, timer, outcome, now, transport>>

\* retryOperation after await operation(): return, or the catch block
RetrySettle(c) ==
    /\ UNCHANGED <<loggerVars, crudVars, adapterVars>>
    /\ pc[c] = "retry"
    /\ LET p == settled[c]
           n == attempt[c]
           r == req[c]
       IN  IF p.state = "fulfilled"
           THEN /\ outcome' = [outcome EXCEPT ![c] = RetryResult(p)]
                /\ hist' = [hist EXCEPT ![c] =
                              Append(@, Settle("retry", n, outcome'[c], now,
                                               Len(logs)))]
                /\ pc' = [pc EXCEPT ![c] = "resolved"]
                /\ UNCHANGED <<logs, writers, timer>>
           ELSE IF IsLastAttempt(n, maxRetries)
           THEN /\ logs' = error(logs, now,
                                 Message("exhausted", r.verb, "", <<>>, maxRetries))
                /\ writers' = Append(writers, c)
                /\ outcome' = [outcome EXCEPT ![c] = RetryResult(p)]
                /\ hist' = [hist EXCEPT ![c] =
                              Append(@, Settle("retry", n, outcome'[c], now,
                                               Len(logs')))]
                /\ pc' = [pc EXCEPT ![c] = "rejected"]
                /\ UNCHANGED timer
           ELSE /\ logs' = warn(logs, now, Message("retrying", r.verb, "", <<>>, n))
                /\ writers' = Append(writers, c)
                /\ timer' = [timer EXCEPT ![c] = now + BackoffDelay(n)]
                /\ hist' = [hist EXCEPT ![c] =
                              Append(@, Ev("setTimeout", "retry", n, NoReq,
                                           Pending, BackoffDelay(n), now,
                                           Len(logs')))]
                /\ pc' = [pc EXCEPT ![c] = "backoff"]
                /\ UNCHANGED outcome
    /\ UNCHANGED <<maxRetries, httpService, instance, req, attempt, start,
                   response, settled, now, transport>>

\* the backoff timer fires: attempt++ and the next pass of the loop
BackoffFire(c) ==
    /\ UNCHANGED <<loggerVars, crudVars, adapterVars>>
    /\ BackoffResolves(c)
    /\ now' = IF now < timer[c] THEN timer[c] ELSE now
    /\ LET n == NextAttempt(c)
           h == Append(hist[c], Ev("timeout", "retry", attempt[c], NoReq,
                                   Pending, 0, now', Len(logs)))
       IN  /\ IF LoopContinues(n, maxRetries)
              THEN Attempt(c, httpService[instance[c]], n, req[c], h, now')
              ELSE Exhausted(c, n, h, now')
    /\ UNCHANGED <<maxRetries, httpService, instance, req, response, settled>>

\* the instance the single-call specification calls
CallerInstance == "A"

Step(c) ==
    \/ \E verb \in Verbs, url \in Urls, config \in Configs :
         \E data \in (IF verb \in BodyVerbs THEN Bodies ELSE {NoData}) :
            Call(c, CallerInstance, verb, url, data, config)
    \/ \E p \in Payloads, d \in NetLatencies : TransportResolve(c, p, d)
    \/ \E m \in ErrorMessages, d \in NetLatencies : TransportReject(c, m, d)
    \/ BasicSettle(c)
    \/ LoggingSettle(c)
    \/ TimingSettle(c)
    \/ RetrySettle(c)
    \/ BackoffFire(c)

Next == Step(Caller)

Spec == Init /\ [][Next]_vars

----------------------------------------------------------------------------
(* Several calls in flight on the services createHttpService returns *)

\* the two calls that may be in flight at the same time
ConcCallers == {1, 2}
ConcVerbs == {"POST"}
ConcUrls == {"/games"}
ConcBodies == {"body1"}
ConcConfigs == {"cfg1"}
ConcPayloads == {"p1"}
ConcErrorMessages == {"timeout"}
ConcLatencies == {0}

\* createHttpService constructs the RetryDecorator with the default budget
InitConc == Init /\ maxRetries = DefaultMaxRetries

\* the continuations of call c that follow a settled request are pending:
\* they are microtasks, and the event loop runs them before it takes the
\* next task (another response, a timer, another call of the caller)
InMicrotasks(c) == pc[c] \in {"basic", "logging", "timing", "retry"}
\* call c may take a step: no other call has microtasks pending
Turn(c) == \A d \in ConcCallers \ {c} : ~InMicrotasks(d)

StepConc(c) ==
    \/ \E i \in Instances, verb \in ConcVerbs, url \in ConcUrls :
         \E data \in ConcBodies, config \in ConcConfigs :
            Turn(c) /\ Call(c, i, verb, url, data, config)
    \/ \E p \in ConcPayloads, d \in ConcLatencies :
            Turn(c) /\ TransportResolve(c, p, d)
    \/ \E m \in ConcErrorMessages, d \in ConcLatencies :
            Turn(c) /\ TransportReject(c, m, d)
    \/ Turn(c) /\ BasicSettle(c)
    \/ Turn(c) /\ LoggingSettle(c)
    \/ Turn(c) /\ TimingSettle(c)
    \/ Turn(c) /\ RetrySettle(c)
    \/ Turn(c) /\ BackoffFire(c)

NextConc == \E c \in ConcCallers : StepConc(c)

SpecConc == InitConc /\ [][NextConc]_vars

----------------------------------------------------------------------------
(* Reading a call's observations *)

EvIdx(c, ev, layer, att) ==
    {i \in DOMAIN hist[c] : /\ hist[c][i].ev = ev
                            /\ hist[c][i].layer = layer
                            /\ hist[c][i].att = att}
EvAll(c, ev, layer) ==
    {i \in DOMAIN hist[c] : hist[c][i].ev = ev /\ hist[c][i].layer = layer}
Happened(c, ev, layer, att) == EvIdx(c, ev, layer, att) # {}
TheIdx(c, ev, layer, att) == CHOOSE i \in EvIdx(c, ev, layer, att) : TRUE
TheEv(c, ev, layer, att) == hist[c][TheIdx(c, ev, layer, att)]
\* how often retryOperation has invoked its delegate (the Timing layer)
DelegateCalls(c) == Cardinality(EvAll(c, "invoke", "timing"))
\* the delegate of the Retry wrapper settled on attempt n
DelegateFailedOn(c, n) ==
    /\ Happened(c, "settle", "timing", n)
    /\ TheEv(c, "settle", "timing", n).out.state = "rejected"
DelegateSucceededOn(c, n) ==
    /\ Happened(c, "settle", "timing", n)
    /\ TheEv(c, "settle", "timing", n).out.state = "fulfilled"
Waits(c) == EvAll(c, "setTimeout", "retry")
Settled(c) == pc[c] \in {"resolved", "rejected"}

----------------------------------------------------------------------------
(* C1: Retry property.  For every verb and every k with 1 <= k <=          *)
(* maxRetries: when the delegate has failed on attempts 1..k-1 and         *)
(* succeeded on attempt k, the delegate has been invoked exactly k times,  *)
(* exactly k-1 backoff waits have occurred, the i-th wait was set to       *)
(* 1000*i ms, lies between the failure of attempt i and the start of       *)
(* attempt i+1 and lasted that long, and the wrapper resolves (never       *)
(* rejects) with the value of attempt k.                                   *)
C1_RetrySucceedsOnAttemptK ==
    \A c \in CallIds : \A k \in 1..maxRetries :
        ( /\ \A i \in 1..(k-1) : DelegateFailedOn(c, i)
          /\ DelegateSucceededOn(c, k) )
        => /\ DelegateCalls(c) = k
           /\ Cardinality(Waits(c)) = k - 1
           /\ \A i \in 1..(k-1) :
                /\ Cardinality(EvIdx(c, "setTimeout", "retry", i)) = 1
                /\ Cardinality(EvIdx(c, "timeout", "retry", i)) = 1
                /\ TheEv(c, "setTimeout", "retry", i).ms = 1000 * i
                /\ TheIdx(c, "settle", "timing", i) < TheIdx(c, "setTimeout", "retry", i)
                /\ TheIdx(c, "setTimeout", "retry", i) < TheIdx(c, "timeout", "retry", i)
                /\ TheIdx(c, "timeout", "retry", i) < TheIdx(c, "invoke", "timing", i + 1)
                /\ TheEv(c, "invoke", "timing", i + 1).at
                     >= TheEv(c, "settle", "timing", i).at + 1000 * i
           /\ pc[c] \in {"retry", "resolved"}
           /\ pc[c] = "resolved" =>
                /\ outcome[c].state = "fulfilled"
                /\ outcome[c] = TheEv(c, "settle", "timing", k).out
                /\ outcome[c].val = TheEv(c, "settle", "axios", k).out.val

\* a call that failed twice, waited twice and resolved on the third attempt
C1_Witness ==
    /\ maxRetries >= 3
    /\ pc[Caller] = "resolved"
    /\ attempt[Caller] = 3
    /\ DelegateFailedOn(Caller, 1) /\ DelegateFailedOn(Caller, 2)
    /\ Cardinality(Waits(Caller)) = 2

(* C2: Exhaustion property.  With maxRetries = N >= 1 and a delegate that  *)
(* fails on every attempt, the delegate is invoked exactly N times and     *)
(* the caller receives the very failure the delegate raised on attempt N.  *)
C2_ExhaustionSurfacesNthFailure ==
    \A c \in CallIds :
        ( /\ maxRetries >= 1
          /\ \A i \in 1..maxRetries : DelegateFailedOn(c, i) )
        => /\ DelegateCalls(c) = maxRetries
           /\ pc[c] \in {"retry", "rejected"}
           /\ pc[c] = "rejected" =>
                /\ outcome[c] = TheEv(c, "settle", "timing", maxRetries).out
                /\ outcome[c].err = TheEv(c, "settle", "axios", maxRetries).out.err
                /\ outcome[c].err.id = <<c, maxRetries>>
                /\ outcome[c].err.kind = "AxiosError"

\* three failures with different messages, the third one surfaced
C2_Witness ==
    /\ maxRetries = 3
    /\ pc[Caller] = "rejected"
    /\ TheEv(Caller, "settle", "axios", 1).out.err.msg = "timeout"
    /\ TheEv(Caller, "settle", "axios", 3).out.err.msg = "status 500"
    /\ outcome[Caller].err.msg = "status 500"

(* C3: Attempt budget.  Whatever the delegate does, one call never invokes *)
(* the delegate more than maxRetries times (not at all when maxRetries is  *)
(* below 1), never invokes it again after an attempt has succeeded, and    *)
(* surfaces a failure only after all maxRetries attempts have failed.      *)
C3_AttemptBudget ==
    \A c \in CallIds :
        /\ DelegateCalls(c) <= maxRetries \/ DelegateCalls(c) = 0
        /\ \A n \in 1..attempt[c] :
             DelegateSucceededOn(c, n) =>
                \A i \in EvAll(c, "invoke", "timing") :
                    i < TheIdx(c, "settle", "timing", n)
        /\ pc[c] = "rejected" =>
             \A n \in 1..maxRetries : DelegateFailedOn(c, n)

\* a budget of three of which only two attempts were needed
C3_Witness ==
    /\ maxRetries = 3
    /\ pc[Caller] = "resolved"
    /\ DelegateCalls(Caller) = 2

(* C4: Zero-attempt edge case.  With maxRetries below 1 a call never       *)
(* invokes the delegate, performs no backoff wait and fails with the       *)
(* generic exhaustion error "Retry operacija neuspjesna".                  *)
C4_ZeroAttempts ==
    \A c \in CallIds :
        (maxRetries < 1 /\ pc[c] # "idle")
        => /\ pc[c] = "rejected"
           /\ outcome[c].state = "rejected"
           /\ outcome[c].err.kind = "Error"
           /\ outcome[c].err.msg = "Retry operacija neuspjesna"
           /\ DelegateCalls(c) = 0
           /\ Waits(c) = {}
           /\ transport = <<>>
           /\ timer[c] = -1

C4_Witness ==
    /\ maxRetries = 0
    /\ pc[Caller] = "rejected"
    /\ req[Caller].verb = "PUT"

(* C5: With an integer maxRetries >= 1 a call never fails with the generic *)
(* exhaustion error: any failure it surfaces is one the delegate raised.   *)
C5_NoGenericErrorWithBudget ==
    \A c \in CallIds :
        (maxRetries >= 1 /\ outcome[c].state = "rejected")
        => /\ outcome[c].err # RetryExhaustedError(c)
           /\ outcome[c].err.msg # "Retry operacija neuspjesna"
           /\ \E n \in 1..maxRetries :
                /\ Happened(c, "settle", "timing", n)
                /\ TheEv(c, "settle", "timing", n).out = outcome[c]
                /\ TheEv(c, "settle", "axios", n).out.err = outcome[c].err

C5_Witness ==
    /\ maxRetries = 1
    /\ pc[Caller] = "rejected"
    /\ outcome[Caller].err.kind = "AxiosError"

----------------------------------------------------------------------------
(* The log records written while one invocation of a wrapper was running *)

\* the records appended from the invocation of layer on attempt n until its
\* promise settled (all of them, when it has not settled yet)
Window(c, layer, n) ==
    SubSeq(logs, TheEv(c, "invoke", layer, n).nlog + 1,
           IF Happened(c, "settle", layer, n)
           THEN TheEv(c, "settle", layer, n).nlog
           ELSE Len(logs))
\* the records of a window whose message is built from template tmpl
OfTemplate(w, tmpl) == {i \in DOMAIN w : w[i].message.tmpl = tmpl}
\* the invocations of a layer that have settled
SettledAttempts(c, layer) ==
    {n \in 1..attempt[c] : Happened(c, "settle", layer, n)}

(* C6: For every verb and path, one call through the Logging wrapper whose *)
(* delegate succeeds appends exactly two log records, both INFO: the       *)
(* "request" record before the delegate is invoked and the "success"       *)
(* record after the delegate has resolved, in that order, and no ERROR     *)
(* record.                                                                 *)
C6_LoggingSuccessTwoInfoEntries ==
    \A c \in CallIds : \A n \in SettledAttempts(c, "logging") :
        TheEv(c, "settle", "basic", n).out.state = "fulfilled"
        => LET w == Window(c, "logging", n)
               first == TheEv(c, "invoke", "logging", n).nlog + 1
           IN  /\ Len(w) = 2
               /\ w[1] = LogEntry(w[1].timestamp, "INFO",
                            Message("request", req[c].verb, req[c].url, <<>>, 0))
               /\ w[2] = LogEntry(w[2].timestamp, "INFO",
                            Message("success", req[c].verb, req[c].url, <<>>, 0))
               /\ \A i \in DOMAIN w : w[i].level # "ERROR"
               /\ first <= TheEv(c, "invoke", "basic", n).nlog
               /\ first + 1 > TheEv(c, "settle", "basic", n).nlog
               /\ TheIdx(c, "settle", "basic", n) < TheIdx(c, "settle", "logging", n)

C6_Witness ==
    /\ pc[Caller] = "timing"
    /\ settled[Caller].state = "fulfilled"
    /\ req[Caller].verb = "DELETE"
    /\ req[Caller].url = "/teams"

(* C7: For every verb, one call through the Logging wrapper whose delegate *)
(* fails appends exactly one INFO "request" record and then exactly one    *)
(* ERROR record, appends no "success" record, and rejects with the         *)
(* identical failure object the delegate raised.                           *)
C7_LoggingFailureOneErrorEntry ==
    \A c \in CallIds : \A n \in SettledAttempts(c, "logging") :
        TheEv(c, "settle", "basic", n).out.state = "rejected"
        => LET w == Window(c, "logging", n)
               e == TheEv(c, "settle", "basic", n).out.err
           IN  /\ Len(w) = 2
               /\ w[1] = LogEntry(w[1].timestamp, "INFO",
                            Message("request", req[c].verb, req[c].url, <<>>, 0))
               /\ w[2] = LogEntry(w[2].timestamp, "ERROR",
                            Message("failure", req[c].verb, req[c].url,
                                    <<e.kind, e.msg>>, 0))
               /\ OfTemplate(w, "success") = {}
               /\ TheEv(c, "settle", "logging", n).out.state = "rejected"
               /\ TheEv(c, "settle", "logging", n).out.err = e
               /\ TheEv(c, "settle", "logging", n).out.err.id = <<c, n>>

C7_Witness ==
    /\ pc[Caller] = "timing"
    /\ settled[Caller].state = "rejected"
    /\ attempt[Caller] = 2
    /\ req[Caller].verb = "POST"

\* the DEBUG duration records of a window
TimingEntries(w) ==
    {i \in DOMAIN w : w[i].level = "DEBUG" /\ w[i].message.tmpl = "timing"}

(* C8: The Timing wrapper records the elapsed duration (one DEBUG record   *)
(* naming the verb) exactly once per call regardless of outcome: both when *)
(* the delegate succeeds and when it fails.                                *)
C8_TimingOncePerCall ==
    \A c \in CallIds : \A n \in SettledAttempts(c, "timing") :
        LET w == Window(c, "timing", n)
        IN  /\ Cardinality(TimingEntries(w)) = 1
            /\ \A i \in TimingEntries(w) : w[i].message.verb = req[c].verb

(* C9: Reference behaviour of the Timing wrapper: exactly one DEBUG        *)
(* duration record per call whose delegate succeeds, none for a call whose *)
(* delegate fails.                                                         *)
C9_TimingOnlyOnSuccess ==
    \A c \in CallIds : \A n \in SettledAttempts(c, "timing") :
        LET w == Window(c, "timing", n)
            ok == TheEv(c, "settle", "logging", n).out.state = "fulfilled"
        IN  /\ ok => /\ Cardinality(TimingEntries(w)) = 1
                     /\ w[Len(w)].level = "DEBUG"
                     /\ w[Len(w)].message.tmpl = "timing"
                     /\ w[Len(w)].message.verb = req[c].verb
            /\ ~ok => /\ TimingEntries(w) = {}
                      /\ \A i \in DOMAIN w : w[i].level # "DEBUG"

\* a failed attempt without, then a successful attempt with a duration record
C9_Witness ==
    /\ pc[Caller] = "retry"
    /\ attempt[Caller] = 2
    /\ settled[Caller].state = "fulfilled"
    /\ TimingEntries(Window(Caller, "timing", 1)) = {}
    /\ TimingEntries(Window(Caller, "timing", 2)) # {}

(* C10: The Logging and Timing wrappers never alter the outcome of a call: *)
(* each settles exactly as its delegate settled (same value, same failure  *)
(* object), so what reaches the Retry wrapper on an attempt is what the    *)
(* Executor produced on that attempt.                                      *)
C10_WrappersPreserveOutcome ==
    \A c \in CallIds : \A n \in 1..attempt[c] :
        /\ Happened(c, "settle", "logging", n) =>
              TheEv(c, "settle", "logging", n).out = TheEv(c, "settle", "basic", n).out
        /\ Happened(c, "settle", "timing", n) =>
              /\ TheEv(c, "settle", "timing", n).out = TheEv(c, "settle", "logging", n).out
              /\ TheEv(c, "settle", "timing", n).out = TheEv(c, "settle", "basic", n).out
        /\ (pc[c] = "retry" /\ n = attempt[c]) =>
              settled[c] = TheEv(c, "settle", "basic", n).out

\* both outcomes have travelled up the chain: a failure, then a value
C10_Witness ==
    /\ pc[Caller] = "retry"
    /\ attempt[Caller] = 2
    /\ TheEv(Caller, "settle", "timing", 1).out.err.msg = "status 500"
    /\ settled[Caller] = Fulfilled("p2")

----------------------------------------------------------------------------
\* the requests the transport has received from call c, in order
Requests(c) ==
    LET F[k \in 0..Len(transport)] ==
            IF k = 0 THEN <<>>
            ELSE IF transport[k].call = c THEN Append(F[k - 1], transport[k])
                 ELSE F[k - 1]
    IN  F[Len(transport)]

(* C11: Argument pass-through.  For every verb and on every retry attempt  *)
(* the path, body and options that reach each layer, the Executor and the  *)
(* transport are exactly the ones the caller passed; a failing POST or PUT *)
(* is re-submitted with the identical body, at most maxRetries times.      *)
C11_ArgumentsPassThrough ==
    \A c \in CallIds :
        /\ \A i \in DOMAIN hist[c] :
              hist[c][i].ev = "invoke" =>
                 /\ hist[c][i].args.verb = req[c].verb
                 /\ hist[c][i].args.url = req[c].url
                 /\ hist[c][i].args.data = req[c].data
                 /\ hist[c][i].args.config = req[c].config
        /\ Len(Requests(c)) = DelegateCalls(c)
        /\ \A k \in DOMAIN Requests(c) :
              /\ Requests(c)[k].att = k
              /\ Requests(c)[k].args = req[c]
        /\ (pc[c] = "rejected" /\ maxRetries >= 1) =>
              /\ Len(Requests(c)) = maxRetries
              /\ \A k \in 1..maxRetries : Requests(c)[k].args.data = req[c].data

\* a PUT with body and options that was submitted three times
C11_Witness ==
    /\ maxRetries = 3
    /\ pc[Caller] = "rejected"
    /\ req[Caller] = [verb |-> "PUT", url |-> "/teams", data |-> "body1",
                      config |-> "cfg1"]
    /\ Len(Requests(Caller)) = 3
    /\ Requests(Caller)[3].args.data = "body1"

----------------------------------------------------------------------------
\* the positions in Logger.logs of the records call c wrote from template tmpl
Written(c, tmpl) ==
    {i \in DOMAIN logs : writers[i] = c /\ logs[i].message.tmpl = tmpl}
\* the attempts of call c: the passes of the retry loop that called a delegate
RetryAttempts(c) ==
    {hist[c][i].att : i \in {j \in DOMAIN hist[c] :
                               hist[c][j].ev = "invoke" /\ hist[c][j].att >= 1}}

(* C12: createHttpService returns the Retry layer of the fixed pipeline    *)
(* Retry -> Timing -> Logging -> Executor: a call enters the Retry layer   *)
(* first, every attempt passes Timing, Logging and Executor exactly once   *)
(* and in this order (and settles in the reverse order), so the number of  *)
(* transport requests = the number of Logging "request" records = the      *)
(* number of Retry attempts.                                               *)
C12_FixedPipeline ==
    \A c \in CallIds :
        /\ hist[c] # <<>> =>
              /\ hist[c][1].ev = "invoke"
              /\ hist[c][1].layer = "retry"
        /\ \A n \in RetryAttempts(c) :
              /\ \A l \in {"timing", "logging", "basic", "axios"} :
                    Cardinality(EvIdx(c, "invoke", l, n)) = 1
              /\ TheIdx(c, "invoke", "timing", n) < TheIdx(c, "invoke", "logging", n)
              /\ TheIdx(c, "invoke", "logging", n) < TheIdx(c, "invoke", "basic", n)
              /\ TheIdx(c, "invoke", "basic", n) < TheIdx(c, "invoke", "axios", n)
              /\ \A l \in {"axios", "basic", "logging", "timing"} :
                    Cardinality(EvIdx(c, "settle", l, n)) <= 1
              /\ Happened(c, "settle", "basic", n) =>
                    TheIdx(c, "settle", "axios", n) < TheIdx(c, "settle", "basic", n)
              /\ Happened(c, "settle", "logging", n) =>
                    TheIdx(c, "settle", "basic", n) < TheIdx(c, "settle", "logging", n)
              /\ Happened(c, "settle", "timing", n) =>
                    TheIdx(c, "settle", "logging", n) < TheIdx(c, "settle", "timing", n)
        /\ Len(Requests(c)) = Cardinality(RetryAttempts(c))
        /\ Cardinality(Written(c, "request")) = Cardinality(RetryAttempts(c))
        /\ RetryAttempts(c) = 1..Cardinality(RetryAttempts(c))

\* the third pass through the pipeline of the service createHttpService built
C12_Witness ==
    /\ maxRetries = DefaultMaxRetries
    /\ httpService[CallerInstance] = createHttpService
    /\ pc[Caller] = "net"
    /\ Cardinality(RetryAttempts(Caller)) = 3
    /\ Len(transport) = 3
    /\ Cardinality(Written(Caller, "request")) = 3

----------------------------------------------------------------------------
\* the positions in Logger.logs of all the records call c wrote
WrittenBy(c) == {i \in DOMAIN logs : writers[i] = c}
\* the number of records in the log when attempt n of call c began
AttemptStart(c, n) ==
    LET first == CHOOSE i \in DOMAIN hist[c] :
                    /\ hist[c][i].ev = "invoke" /\ hist[c][i].att = n
                    /\ \A j \in DOMAIN hist[c] :
                          (hist[c][j].ev = "invoke" /\ hist[c][j].att = n) => i <= j
    IN  hist[c][first].nlog
\* the positions of the records call c wrote during its attempt n
AttemptRecords(c, n) ==
    {i \in WrittenBy(c) :
        /\ i > AttemptStart(c, n)
        /\ (n + 1) \in RetryAttempts(c) => i <= AttemptStart(c, n + 1)}
OfTemplates(idx, tmpls) == {i \in idx : logs[i].message.tmpl \in tmpls}

(* C13: Log ordering within one call: the Logging "request" record is the  *)
(* first record the call writes, and on each attempt the Logging "success" *)
(* or error record is written after the "request" record and before the    *)
(* Timing duration record and before the Retry warn/error record of that   *)
(* attempt.                                                                *)
C13_LogOrdering ==
    \A c \in CallIds :
        /\ WrittenBy(c) # {} =>
              \E i \in WrittenBy(c) :
                 /\ \A j \in WrittenBy(c) : i <= j
                 /\ logs[i].message.tmpl = "request"
                 /\ logs[i].level = "INFO"
        /\ \A n \in RetryAttempts(c) :
              LET recs == AttemptRecords(c, n)
                  before == OfTemplates(recs, {"request"})
                  after == OfTemplates(recs, {"success", "failure"})
                  outer == OfTemplates(recs, {"timing", "retrying", "exhausted"})
              IN  /\ Cardinality(before) = 1
                  /\ Cardinality(after) <= 1
                  /\ \A q \in before : \A i \in after \cup outer : q < i
                  /\ \A a \in after : \A x \in outer : a < x
                  /\ outer # {} => after # {}
                  /\ Happened(c, "settle", "timing", n) => after # {}

\* attempt 1: request, failure, warn; attempt 2: request, success, duration
C13_Witness ==
    /\ pc[Caller] = "resolved"
    /\ attempt[Caller] = 2
    /\ Len(logs) = 6
    /\ logs[2].message.tmpl = "failure" /\ logs[3].message.tmpl = "retrying"
    /\ logs[5].message.tmpl = "success" /\ logs[6].message.tmpl = "timing"

----------------------------------------------------------------------------
\* how many attempts of call c have settled at the Retry wrapper's delegate
DelegateResults(c) == Cardinality(EvAll(c, "settle", "timing"))

(* C14: Concurrent calls do not interfere.  Under any interleaving of two  *)
(* calls in flight, each call numbers its attempts 1, 2, ... by itself,    *)
(* and the number of delegate invocations, the backoff durations and the   *)
(* final outcome of a call are determined by the call's own sequence of    *)
(* delegate results: it stops at its first success or at its maxRetries-th *)
(* failure, waits 1000*n ms after its own n-th failure and settles with    *)
(* its own last result.                                                    *)
C14_ConcurrentCallsIndependent ==
    \A c \in CallIds :
        LET k == DelegateResults(c)
            res(n) == TheEv(c, "settle", "timing", n).out
            fails == {n \in 1..k : res(n).state = "rejected"}
        IN  /\ RetryAttempts(c) = 1..DelegateCalls(c)
            /\ \A n \in 1..k : Cardinality(EvIdx(c, "settle", "timing", n)) = 1
            /\ DelegateCalls(c) \in {k, k + 1}
            /\ DelegateCalls(c) <= maxRetries \/ DelegateCalls(c) = 0
            /\ \A n \in 1..(k - 1) : n \in fails
            /\ \A i \in Waits(c) :
                  /\ hist[c][i].att \in fails
                  /\ hist[c][i].att < maxRetries
                  /\ hist[c][i].ms = 1000 * hist[c][i].att
            /\ \A n \in fails :
                  (n < maxRetries /\ (n < k \/ pc[c] # "retry")) =>
                      Cardinality(EvIdx(c, "setTimeout", "retry", n)) = 1
            /\ \A n \in 1..k :
                  Happened(c, "timeout", "retry", n) =>
                      TheEv(c, "timeout", "retry", n).at
                        >= TheEv(c, "setTimeout", "retry", n).at + 1000 * n
            /\ (k >= 1 /\ k \notin fails) => pc[c] \in {"retry", "resolved"}
            /\ (k >= 1 /\ k = maxRetries /\ k \in fails) =>
                  pc[c] \in {"retry", "rejected"}
            /\ pc[c] = "resolved" =>
                  /\ k >= 1 /\ k \notin fails
                  /\ DelegateCalls(c) = k
                  /\ outcome[c] = res(k)
            /\ (pc[c] = "rejected" /\ maxRetries >= 1) =>
                  /\ k = maxRetries /\ k \in fails
                  /\ DelegateCalls(c) = k
                  /\ outcome[c] = res(k)
                  /\ outcome[c].err.id = <<c, k>>

\* two calls in flight on the same service: one waits for its second backoff
\* timer while the first request of the other is at the network
C14_Witness ==
    /\ instance[1] = instance[2]
    /\ instance[1] \in Instances
    /\ pc[1] = "backoff" /\ attempt[1] = 2
    /\ pc[2] = "net" /\ attempt[2] = 1

----------------------------------------------------------------------------
\* call d had settled when call c was issued (all its records were written)
Earlier(d, c) ==
    /\ d # c
    /\ Settled(d)
    /\ hist[c] # <<>>
    /\ WrittenBy(d) # {}
    /\ \A i \in WrittenBy(d) : i <= hist[c][1].nlog
\* what a call finds whatever the calls before it did
FreshCall(c) ==
    /\ \A i \in DOMAIN hist[c] :
          (hist[c][i].ev = "invoke" /\ hist[c][i].layer # "retry")
             => /\ hist[c][i].att >= 1
                /\ \A n \in 1..hist[c][i].att : n \in RetryAttempts(c)
    /\ Len(hist[c]) >= 2 => hist[c][2].att = 1
    /\ \A i \in Waits(c) :
          (\A j \in Waits(c) : i <= j) =>
             /\ hist[c][i].att = 1
             /\ hist[c][i].ms = 1000
    /\ pc[c] = "rejected" => Cardinality(RetryAttempts(c)) = maxRetries
    /\ (pc[c] = "backoff" /\ attempt[c] < maxRetries) => timer[c] >= 0

(* C15: Wrappers keep no call-specific state between invocations.  After   *)
(* any earlier calls on the same instance (successful, retried or          *)
(* exhausted) a call starts at attempt 1, has the full budget of           *)
(* maxRetries attempts and a first backoff of 1000 ms; maxRetries and the  *)
(* reference to the inner service never change after construction.         *)
C15_NoStateBetweenCalls ==
    /\ [](\A c \in CallIds : hist[c] # <<>> => FreshCall(c))
    /\ [][maxRetries' = maxRetries /\ httpService' = httpService]_vars

\* a call issued on the same service after an exhausted call has itself
\* failed once and waits for its first backoff timer
C15_Witness ==
    /\ instance[1] = instance[2]
    /\ Earlier(1, 2)
    /\ pc[1] = "rejected" /\ attempt[1] = maxRetries
    /\ pc[2] = "backoff" /\ attempt[2] = 1
    /\ timer[2] = now + 1000

----------------------------------------------------------------------------
\* the instance whose call wrote the i-th record of the log
WriterInstance(w, inst, i) == inst[w[i]]
\* the records the calls on instance i wrote, in the order they were written
RecordsOf(l, w, inst, i) ==
    LET F[k \in 0..Len(l)] ==
            IF k = 0 THEN <<>>
            ELSE IF k <= Len(w) /\ WriterInstance(w, inst, k) = i
                 THEN Append(F[k - 1], l[k])
                 ELSE F[k - 1]
    IN  F[Len(l)]
\* the calls issued on instance i
CallsOn(inst, i) == {c \in CallIds : inst[c] = i}

(* C16 (as stated): two services constructed by createHttpService share no *)
(* mutable state, so no log holds records of calls on both instances.      *)
C16_InstancesShareNoLog ==
    \A i, j \in DOMAIN logs :
        WriterInstance(writers, instance, i) = WriterInstance(writers, instance, j)

(* C16 (amended): the two services share no mutable state except the       *)
(* process-wide Logger.  A step of a call on one instance never changes    *)
(* the attempt counter, timer, timing start, pending settlement or outcome *)
(* of a call on the other instance, and never changes, removes or reorders *)
(* the records the other instance's calls wrote; it only appends records   *)
(* of its own to the one shared log.                                       *)
C16_InstancesShareOnlyLogger ==
    [][\A i \in Instances :
          (\A c \in CallsOn(instance', i) : hist'[c] = hist[c])
          => /\ CallsOn(instance', i) = CallsOn(instance, i)
             /\ \A c \in CallsOn(instance, i) :
                   /\ pc'[c] = pc[c]
                   /\ attempt'[c] = attempt[c]
                   /\ timer'[c] = timer[c]
                   /\ start'[c] = start[c]
                   /\ settled'[c] = settled[c]
                   /\ outcome'[c] = outcome[c]
             /\ RecordsOf(logs', writers', instance', i)
                  = RecordsOf(logs, writers, instance, i)
             /\ Len(logs') >= Len(logs)
             /\ SubSeq(logs', 1, Len(logs)) = logs
             /\ httpService'[i] = httpService[i]]_vars

\* calls on A and on B are in flight, one of them waiting for its timer, and
\* their records alternate in the shared log
C16_Witness ==
    /\ instance[1] = "A" /\ instance[2] = "B"
    /\ pc[1] = "backoff" /\ pc[2] = "net"
    /\ Len(logs) >= 4
    /\ writers[1] = 2 /\ writers[2] = 1 /\ writers[4] = 1
    /\ writers[Len(writers)] = 2

----------------------------------------------------------------------------
(* One call when the environment keeps going *)

\* the transport request of call c settles, one way or the other
TransportSettles(c) ==
    \/ \E p \in Payloads, d \in NetLatencies : TransportResolve(c, p, d)
    \/ \E m \in ErrorMessages, d \in NetLatencies : TransportReject(c, m, d)
\* the continuations of a settled promise are run by the event loop
Continues(c) ==
    BasicSettle(c) \/ LoggingSettle(c) \/ TimingSettle(c) \/ RetrySettle(c)

\* every transport request eventually settles, every backoff timer
\* eventually fires, and pending continuations are run
LiveSpec ==
    /\ Init /\ [][Next]_vars
    /\ WF_vars(TransportSettles(Caller))
    /\ WF_vars(BackoffFire(Caller))
    /\ WF_vars(Continues(Caller))

(* C17: Every call eventually settles, with a success or a final failure,  *)
(* provided every transport request eventually settles and every backoff   *)
(* timer eventually fires.  There is no cancellation: an issued call never *)
(* goes back to idle, it settles only when an attempt has succeeded or all *)
(* maxRetries attempts have failed, and a settled call stays settled.      *)
C17_CallEventuallySettles ==
    /\ (pc[Caller] # "idle") ~> Settled(Caller)
    /\ [][pc[Caller] # "idle" => pc'[Caller] # "idle"]_vars
    /\ [][Settled(Caller) =>
            (pc'[Caller] = pc[Caller] /\ outcome'[Caller] = outcome[Caller])]_vars
    /\ [](pc[Caller] = "resolved" =>
            \E n \in 1..maxRetries : DelegateSucceededOn(Caller, n))
    /\ [](pc[Caller] = "rejected" =>
            \A n \in 1..maxRetries : DelegateFailedOn(Caller, n))

\* a call that went through both suspension points and then settled
C17_Witness ==
    /\ maxRetries = 2
    /\ Settled(Caller)
    /\ Happened(Caller, "timeout", "retry", 1)
    /\ Happened(Caller, "settle", "axios", 2)
    /\ now >= 1000

----------------------------------------------------------------------------
\* the transport requests issued for attempt n of call c
RequestsOf(c, n) ==
    {k \in DOMAIN transport : transport[k].call = c /\ transport[k].att = n}

(* C18: The Request Executor performs exactly one transport request of the *)
(* matching verb per invocation, resolves with the payload (data) of the   *)
(* response, rejects with the transport's error as it is, performs no      *)
(* retry and writes no log or timing record.                               *)
C18_ExecutorOneRequest ==
    \A c \in CallIds : \A n \in RetryAttempts(c) :
        Happened(c, "invoke", "basic", n) =>
            LET called == TheEv(c, "invoke", "basic", n)
            IN  /\ Cardinality(RequestsOf(c, n)) = 1
                /\ \A k \in RequestsOf(c, n) :
                      /\ transport[k].args.verb = called.args.verb
                      /\ transport[k].args = called.args
                /\ Cardinality(EvIdx(c, "invoke", "axios", n)) = 1
                /\ Happened(c, "settle", "basic", n) =>
                      LET got == TheEv(c, "settle", "axios", n).out
                          ret == TheEv(c, "settle", "basic", n)
                      IN  /\ got.state = "fulfilled" =>
                                /\ ret.out.state = "fulfilled"
                                /\ ret.out.val = got.val
                          /\ got.state = "rejected" =>
                                /\ ret.out.state = "rejected"
                                /\ ret.out.err = got.err
                                /\ ret.out.err.kind = "AxiosError"
                          /\ ret.nlog = called.nlog
                          /\ \A i \in DOMAIN logs :
                                (i > TheEv(c, "invoke", "logging", n).nlog + 1
                                   /\ i <= ret.nlog) => writers[i] # c
                /\ (pc[c] = "logging" /\ n = attempt[c] /\ response[c].ok) =>
                      settled[c] = Fulfilled(response[c].data)

\* the Executor has rejected once with the transport's error and now
\* resolved a GET with the payload of the response
C18_Witness ==
    /\ pc[Caller] = "logging"
    /\ req[Caller].verb = "GET"
    /\ attempt[Caller] = 2
    /\ TheEv(Caller, "settle", "basic", 1).out.err.msg = "timeout"
    /\ response[Caller].status = 200
    /\ settled[Caller] = Fulfilled("p2")

----------------------------------------------------------------------------
\* the Logger method each message of the chain is written with
LevelOf(tmpl) ==
    CASE tmpl \in {"request", "success"} -> "INFO"
      [] tmpl \in {"failure", "exhausted"} -> "ERROR"
      [] tmpl = "retrying" -> "WARN"
      [] tmpl = "timing" -> "DEBUG"

(* C19: The chain is append-only towards the logger: in every step of any  *)
(* sequence of calls the log is left as it is or grows by exactly one      *)
(* record, put at the end, whose severity is that of the method it was     *)
(* written with; no existing record is removed, reordered or modified.     *)
C19_LogAppendOnly ==
    [][\/ logs' = logs
       \/ /\ Len(logs') = Len(logs) + 1
          /\ SubSeq(logs', 1, Len(logs)) = logs
          /\ logs'[Len(logs')].level = LevelOf(logs'[Len(logs')].message.tmpl)
          /\ logs'[Len(logs')].timestamp = now']_vars

\* two calls have written records of all four severities
C19_Witness ==
    /\ \A lv \in {"INFO", "WARN", "ERROR", "DEBUG"} :
          \E i \in DOMAIN logs : logs[i].level = lv
    /\ \A c \in ConcCallers : \E i \in DOMAIN logs : writers[i] = c
    /\ \A i \in DOMAIN logs : logs[i].level = LevelOf(logs[i].message.tmpl)

----------------------------------------------------------------------------
(* C20: The duration the Timing wrapper logs on a successful call is never *)
(* negative: it is the end timestamp, taken after the delegate resolved,   *)
(* minus the start timestamp, taken before the delegate was invoked, both  *)
(* read from a clock that never goes back.                                 *)
C20_DurationNonNegative ==
    /\ \A i \in DOMAIN logs :
          logs[i].message.tmpl = "timing" => logs[i].message.num >= 0
    /\ \A c \in CallIds :
          /\ \A i, j \in DOMAIN hist[c] :
                i < j => hist[c][i].at <= hist[c][j].at
          /\ \A n \in SettledAttempts(c, "timing") :
                DelegateSucceededOn(c, n) =>
                    LET begun == TheEv(c, "invoke", "timing", n)
                        ended == TheEv(c, "settle", "timing", n)
                    IN  /\ TheIdx(c, "invoke", "timing", n)
                              < TheIdx(c, "invoke", "logging", n)
                        /\ TheIdx(c, "settle", "logging", n)
                              < TheIdx(c, "settle", "timing", n)
                        /\ TheEv(c, "settle", "logging", n).out.state
                              = "fulfilled"
                        /\ begun.at <= TheEv(c, "invoke", "logging", n).at
                        /\ TheEv(c, "settle", "logging", n).at <= ended.at
                        /\ ended.nlog = begun.nlog + 3
                        /\ logs[ended.nlog].message.tmpl = "timing"
                        /\ logs[ended.nlog].message.num = ended.at - begun.at
                        /\ logs[ended.nlog].message.num >= 0

\* a second attempt, started after the backoff, has succeeded after a
\* positive latency and its duration has been logged
C20_Witness ==
    /\ DelegateSucceededOn(Caller, 2)
    /\ TheEv(Caller, "invoke", "timing", 2).at >= BackoffUnitMs
    /\ \E i \in DOMAIN logs :
          /\ logs[i].message.tmpl = "timing"
          /\ logs[i].message.num = 7
          /\ logs[i].timestamp > BackoffUnitMs

----------------------------------------------------------------------------
(* The Logger singleton on its own (services/logger.ts) *)

\* how often getInstance is called
MaxGetInstance == 3
\* the longest log, and the longest returned list
MaxLogLen == 2
\* how many lists getLogs hands out
MaxSnapshots == 1


\* logger.info / logger.warn / logger.error / logger.debug
LoggerMethod(m, l, t, message) ==
    CASE m = "info" -> info(l, t, message)
      [] m = "warn" -> warn(l, t, message)
      [] m = "error" -> error(l, t, message)
      [] m = "debug" -> debug(l, t, message)

\* logger.ts has not been evaluated yet
InitLogger ==
    /\ Logger_instance = 0
    /\ constructed = 0
    /\ handles = <<>>
    /\ snapshots = <<>>
    /\ lastOp = "none"
    /\ CrudIdle
    /\ AdaptersIdle
    /\ maxRetries = DefaultMaxRetries
    /\ HttpIdle

\* the records written here are written by no call of the chain
NoCall == 0

\* Logger.getInstance(); the first call is the module's default export
GetInstance ==
    /\ Len(handles) < MaxGetInstance
    /\ LET got == getInstance(Logger_instance, constructed)
       IN  /\ Logger_instance' = got.instance
           /\ constructed' = got.constructed
           /\ handles' = Append(handles, got.instance)
    /\ lastOp' = "getInstance"
    /\ UNCHANGED <<httpVars, logVars, snapshots, crudVars, adapterVars>>

\* one of the four logging methods is called on the instance
LoggerWrite(m, text) ==
    /\ handles # <<>>
    /\ Len(logs) < MaxLogLen
    /\ logs' = LoggerMethod(m, logs, now, Text(text))
    /\ writers' = [i \in DOMAIN logs' |-> NoCall]
    /\ lastOp' = m
    /\ UNCHANGED <<httpVars, now, Logger_instance, constructed, handles,
                   snapshots, crudVars, adapterVars>>

\* logger.clearLogs(): this.logs is a new array from here on, a list that
\* was the old array keeps the old records
ClearLogs ==
    /\ handles # <<>>
    /\ logs' = clearLogs(logs, now)
    /\ writers' = [i \in DOMAIN logs' |-> NoCall]
    /\ snapshots' = [i \in DOMAIN snapshots |->
                        [snapshots[i] EXCEPT
                            !.list = [alias |-> FALSE,
                                      items |-> ContentOf(@, logs)]]]
    /\ lastOp' = "clearLogs"
    /\ UNCHANGED <<httpVars, now, Logger_instance, constructed, handles,
                   crudVars, adapterVars>>

\* logger.getLogs(); stored is the log at that moment (spy)
GetLogs ==
    /\ handles # <<>>
    /\ Len(snapshots) < MaxSnapshots
    /\ snapshots' = Append(snapshots, [list |-> getLogs(logs), stored |-> logs])
    /\ lastOp' = "getLogs"
    /\ UNCHANGED <<httpVars, logVars, Logger_instance, constructed, handles,
                   crudVars, adapterVars>>

\* what the holder of a returned list may do to it: push a record of its
\* own, pop, reverse
ListOp(op, l) ==
    CASE op = "push" -> Append(l, LogEntry(0, "INFO", Text("foreign")))
      [] op = "pop" -> IF l = <<>> THEN l ELSE SubSeq(l, 1, Len(l) - 1)
      [] op = "reverse" -> [i \in DOMAIN l |-> l[Len(l) + 1 - i]]

\* the holder of the i-th returned list changes it in place
HolderChanges(i, op) ==
    /\ i \in DOMAIN snapshots
    /\ LET was == ContentOf(snapshots[i].list, logs)
           becomes == ListOp(op, was)
       IN  /\ Len(becomes) <= MaxLogLen
           /\ becomes # was
           /\ IF snapshots[i].list.alias
              THEN /\ logs' = becomes
                   /\ writers' = [k \in DOMAIN becomes |-> NoCall]
                   /\ UNCHANGED snapshots
              ELSE /\ snapshots' = [snapshots EXCEPT ![i].list.items = becomes]
                   /\ UNCHANGED <<logs, writers>>
    /\ lastOp' = op
    /\ UNCHANGED <<httpVars, now, Logger_instance, constructed, handles,
                   crudVars, adapterVars>>

NextLogger ==
    \/ GetInstance
    \/ \E m \in {"info", "warn", "error", "debug"}, text \in {"m1"} :
         LoggerWrite(m, text)
    \/ ClearLogs
    \/ GetLogs
    \/ \E i \in 1..MaxSnapshots, op \in {"push", "pop", "reverse"} :
         HolderChanges(i, op)

LoggerSpec == InitLogger /\ [][NextLogger]_vars

(* C21: Logger is a singleton: at most one Logger is ever constructed, and *)
(* every call of Logger.getInstance(), however many there are, returns     *)
(* that one instance, which is the one the module exports as its default   *)
(* (the result of the first call).                                         *)
C21_LoggerSingleton ==
    /\ constructed <= 1
    /\ handles # <<>> =>
          /\ constructed = 1
          /\ Logger_instance = handles[1]
          /\ \A i \in DOMAIN handles : handles[i] = handles[1]

\* getInstance has been called as often as the bound allows, with logging
\* in between
C21_Witness ==
    /\ Len(handles) = MaxGetInstance
    /\ constructed = 1
    /\ logs # <<>>

----------------------------------------------------------------------------
(* The resource clients gameService, teamService, tournamentService and    *)
(* newsService (services/*_service.ts)                                     *)

\* how many operations are called
MaxCrudCalls == 1

DefaultApiUrl == "http://localhost:3000/api"
CrudOps == {"getAll", "getById", "create", "update", "delete"}
\* team_service.ts is not among the sources; its tests call these five
TeamOps == CrudOps
\* the operations each client object has
ClientOps(res) ==
    CASE res = "games" -> CrudOps
      [] res = "teams" -> TeamOps
      [] res = "tournaments" -> CrudOps
      [] res = "news" -> CrudOps \ {"getById"}
\* the operations that take an id
TakesId(op) == op \in {"getById", "update", "delete"}
\* axios.get / axios.post / axios.put / axios.delete
VerbOf(op) ==
    CASE op \in {"getAll", "getById"} -> "GET"
      [] op = "create" -> "POST"
      [] op = "update" -> "PUT"
      [] op = "delete" -> "DELETE"
\* `${API_BASE_URL}/games` and `${API_BASE_URL}/games/${id}`
UrlOf(base, res, op, id) ==
    IF TakesId(op) THEN <<base, res, id>> ELSE <<base, res>>

\* getApiUrl: an unset or empty value is falsy
getApiUrl(win, env) ==
    IF win # "" THEN win ELSE IF env # "" THEN env ELSE DefaultApiUrl

\* mutant: the base address is looked up again for each request
BaseUrlNow(res) == getApiUrl(windowApiUrl, viteApiUrl)
\* the module constant API_BASE_URL of the client
BaseUrl(res) == API_BASE_URL[res]

\* mutant: the catch blocks of gameService throw a new Error, and delete
\* returns the data
CrudResultChanged(res, op, resp) ==
    IF resp.ok
    THEN Fulfilled(resp.data)
    ELSE IF res = "games" /\ op \in {"create", "update", "delete"}
         THEN Rejected([kind |-> "Error", msg |-> resp.err.msg, id |-> <<0, 0>>])
         ELSE Rejected(resp.err)
\* return response.data (nothing for delete); catch (error) { throw error }
CrudResult(res, op, resp) ==
    IF resp.ok
    THEN IF op = "delete" THEN Fulfilled(NoData) ELSE Fulfilled(resp.data)
    ELSE Rejected(resp.err)

InitCrud ==
    /\ LoggerLoaded
    /\ windowApiUrl = ""
    /\ viteApiUrl \in {"", "https://env.example/api"}
    /\ API_BASE_URL = [r \in Resources |-> "unloaded"]
    /\ crudCall = NoCrudCall
    /\ axiosRequests = <<>>
    /\ AdaptersIdle
    /\ maxRetries = DefaultMaxRetries
    /\ HttpIdle

\* public/config.js: the first branch is never taken, the fallback is
ConfigJs ==
    \* window.location.origin + '/api'
    /\ LET sets == "https://origin.example/api"
       IN  /\ windowApiUrl # sets
           /\ windowApiUrl' = sets
    /\ UNCHANGED <<httpVars, logVars, loggerVars, viteApiUrl, API_BASE_URL,
                   crudCall, axiosRequests, adapterVars>>

\* the body of main.tsx
MainBody ==
    /\ LET apiUrl == viteApiUrl
           sets == IF apiUrl # "" THEN apiUrl ELSE DefaultApiUrl
       IN  /\ windowApiUrl # sets
           /\ windowApiUrl' = sets
    /\ UNCHANGED <<httpVars, logVars, loggerVars, viteApiUrl, API_BASE_URL,
                   crudCall, axiosRequests, adapterVars>>

\* the module of a client is evaluated: const API_BASE_URL = getApiUrl()
LoadClient(res) ==
    /\ API_BASE_URL[res] = "unloaded"
    /\ API_BASE_URL' =
          [API_BASE_URL EXCEPT ![res] = getApiUrl(windowApiUrl, viteApiUrl)]
    /\ UNCHANGED <<httpVars, logVars, loggerVars, windowApiUrl, viteApiUrl,
                   crudCall, axiosRequests, adapterVars>>

\* an operation of a client is called and runs up to its await
CrudCall(res, op, id, data) ==
    /\ API_BASE_URL[res] # "unloaded"
    /\ crudCall.pc \in {"idle", "settled"}
    /\ Len(axiosRequests) < MaxCrudCalls
    /\ op \in ClientOps(res)
    /\ axiosRequests' =
          Append(axiosRequests,
                 [verb |-> VerbOf(op), url |-> UrlOf(BaseUrl(res), res, op, id),
                  res |-> res, data |-> data])
    /\ crudCall' = [pc |-> "net", n |-> crudCall.n + 1, res |-> res,
                    op |-> op, id |-> id, data |-> data,
                    response |-> NoResponse, outcome |-> Pending]
    /\ UNCHANGED <<httpVars, logVars, loggerVars, windowApiUrl, viteApiUrl,
                   API_BASE_URL, adapterVars>>

\* the request settles and the operation returns or throws
CrudSettle(resp) ==
    /\ crudCall.pc = "net"
    /\ crudCall' = [crudCall EXCEPT
                       !.pc = "settled",
                       !.response = resp,
                       !.outcome = CrudResult(crudCall.res, crudCall.op, resp)]
    /\ UNCHANGED <<httpVars, logVars, loggerVars, windowApiUrl, viteApiUrl,
                   API_BASE_URL, axiosRequests, adapterVars>>

NextCrud ==
    \/ ConfigJs
    \/ MainBody
    \/ \E res \in Resources : LoadClient(res)
    \/ \E res \in Resources, op \in CrudOps :
         \E id \in (IF TakesId(op) THEN {7} ELSE {0}) :
           \E data \in (IF op \in {"create", "update"} THEN {"form1"} ELSE {NoData}) :
              CrudCall(res, op, id, data)
    \/ \E p \in {"p1"} :
         CrudSettle([ok |-> TRUE, data |-> p, status |-> 200, err |-> NoErr])
    \/ \E m \in {"Network error"} :
         CrudSettle([ok |-> FALSE, data |-> "", status |-> 0,
                     err |-> TransportError(NoCall, Len(axiosRequests), m)])

CrudSpec == InitCrud /\ [][NextCrud]_vars

(* C22: Each operation of a resource client issues exactly one transport   *)
(* request, of the verb of the operation (getAll and getById GET, create   *)
(* POST, update PUT, delete DELETE), and does not retry: when the request  *)
(* succeeds the operation resolves with the data of the response (delete   *)
(* with no value), and when it fails the operation rejects with the        *)
(* transport's error unchanged.                                            *)
C22_CrudOneRequest ==
    /\ Len(axiosRequests) = crudCall.n
    /\ crudCall.pc # "idle" =>
          LET sent == axiosRequests[Len(axiosRequests)]
              got == crudCall.response
          IN  /\ sent.res = crudCall.res
              /\ crudCall.op \in {"getAll", "getById"} => sent.verb = "GET"
              /\ crudCall.op = "create" => sent.verb = "POST"
              /\ crudCall.op = "update" => sent.verb = "PUT"
              /\ crudCall.op = "delete" => sent.verb = "DELETE"
              /\ sent.data = crudCall.data
              /\ crudCall.pc = "net" => crudCall.outcome = Pending
              /\ (crudCall.pc = "settled" /\ got.ok) =>
                    /\ crudCall.outcome.state = "fulfilled"
                    /\ crudCall.op # "delete" =>
                          crudCall.outcome.val = got.data
                    /\ crudCall.op = "delete" =>
                          crudCall.outcome.val = NoData
              /\ (crudCall.pc = "settled" /\ ~got.ok) =>
                    /\ crudCall.outcome.state = "rejected"
                    /\ crudCall.outcome.err = got.err
                    /\ crudCall.outcome.err.kind = "AxiosError"

\* an update of a game has been rejected with the transport's error
C22_Witness ==
    /\ crudCall.pc = "settled"
    /\ crudCall.res = "games"
    /\ crudCall.op = "update"
    /\ crudCall.outcome.state = "rejected"
    /\ crudCall.outcome.err.kind = "AxiosError"
    /\ Len(axiosRequests) = 1

----------------------------------------------------------------------------
(* C23: Full log trace of an exhausted call through the composed service   *)
(* with maxRetries = N >= 1 and a transport that always fails: for each    *)
(* attempt i < N the log receives, in order, the Logging "request" info    *)
(* record, the Logging error record and the Retry warn record naming       *)
(* attempt i; for attempt N the "request" record, the Logging error record *)
(* and one Retry error record naming N attempts; no Timing debug record    *)
(* and no "success" record is anywhere in the trace.                       *)
C23_ExhaustedLogTrace ==
    \A c \in CallIds :
        (pc[c] = "rejected" /\ maxRetries >= 1) =>
            /\ Len(logs) = 3 * maxRetries
            /\ \A i \in 1..maxRetries :
                  /\ logs[3 * i - 2].level = "INFO"
                  /\ logs[3 * i - 2].message.tmpl = "request"
                  /\ logs[3 * i - 2].message.verb = req[c].verb
                  /\ logs[3 * i - 2].message.url = req[c].url
                  /\ logs[3 * i - 1].level = "ERROR"
                  /\ logs[3 * i - 1].message.tmpl = "failure"
                  /\ logs[3 * i - 1].message.err
                        = ErrorToString(TheEv(c, "settle", "axios", i).out.err)
                  /\ i < maxRetries =>
                        /\ logs[3 * i].level = "WARN"
                        /\ logs[3 * i].message.tmpl = "retrying"
                        /\ logs[3 * i].message.num = i
                  /\ i = maxRetries =>
                        /\ logs[3 * i].level = "ERROR"
                        /\ logs[3 * i].message.tmpl = "exhausted"
                        /\ logs[3 * i].message.num = maxRetries
            /\ \A k \in DOMAIN logs :
                  /\ logs[k].level # "DEBUG"
                  /\ logs[k].message.tmpl \notin {"timing", "success"}
                  /\ writers[k] = c

\* a call with three attempts is exhausted and has left nine records
C23_Witness ==
    /\ pc[Caller] = "rejected"
    /\ maxRetries = 3
    /\ Len(logs) = 9
    /\ logs[9].message.tmpl = "exhausted"

----------------------------------------------------------------------------
(* C24: Backoff placement in the Retry wrapper: a backoff wait occurs only *)
(* after a failed attempt that is not the last one, and the next attempt   *)
(* never starts before that wait has elapsed; there is no wait before the  *)
(* first attempt, none after a successful attempt and none after the       *)
(* failure of attempt maxRetries, whose failure is propagated immediately  *)
(* after the exhaustion error is logged.  Each non-final failed attempt    *)
(* produces exactly one warn record, written before its wait begins, and   *)
(* the exhaustion error record is never written for a call that succeeds.  *)
C24_BackoffPlacement ==
    \A c \in CallIds :
        /\ \A w \in Waits(c) :
              LET n == hist[c][w].att
              IN  /\ DelegateFailedOn(c, n)
                  /\ n >= 1 /\ n < maxRetries
                  /\ TheIdx(c, "settle", "timing", n) < w
                  /\ w > TheIdx(c, "invoke", "timing", 1)
                  /\ hist[c][w].at = TheEv(c, "settle", "timing", n).at
                  /\ logs[hist[c][w].nlog].level = "WARN"
                  /\ logs[hist[c][w].nlog].message.num = n
                  /\ Cardinality({k \in DOMAIN logs :
                                     /\ writers[k] = c
                                     /\ logs[k].level = "WARN"
                                     /\ logs[k].message.num = n}) = 1
        /\ \A n \in RetryAttempts(c) :
              /\ Cardinality(EvIdx(c, "setTimeout", "retry", n)) <= 1
              /\ (DelegateSucceededOn(c, n) \/ n = maxRetries) =>
                    ~Happened(c, "setTimeout", "retry", n)
              /\ ( /\ DelegateFailedOn(c, n)
                   /\ n < maxRetries
                   /\ ~(pc[c] = "retry" /\ attempt[c] = n) ) =>
                    Happened(c, "setTimeout", "retry", n)
              /\ n > 1 =>
                    /\ Happened(c, "setTimeout", "retry", n - 1)
                    /\ Happened(c, "timeout", "retry", n - 1)
                    /\ TheIdx(c, "setTimeout", "retry", n - 1)
                          < TheIdx(c, "timeout", "retry", n - 1)
                    /\ TheIdx(c, "timeout", "retry", n - 1)
                          < TheIdx(c, "invoke", "timing", n)
                    /\ TheEv(c, "invoke", "timing", n).at
                          >= TheEv(c, "setTimeout", "retry", n - 1).at
                               + TheEv(c, "setTimeout", "retry", n - 1).ms
        /\ (pc[c] = "rejected" /\ maxRetries >= 1) =>
              LET thrown == TheEv(c, "settle", "retry", maxRetries)
              IN  /\ thrown.nlog = Len(logs)
                  /\ logs[thrown.nlog].message.tmpl = "exhausted"
                  /\ thrown.nlog
                        = TheEv(c, "settle", "timing", maxRetries).nlog + 1
                  /\ thrown.at = TheEv(c, "settle", "timing", maxRetries).at
        /\ pc[c] = "resolved" =>
              \A k \in DOMAIN logs :
                  writers[k] = c => logs[k].message.tmpl # "exhausted"

\* the second attempt has failed, its wait has elapsed and the third
\* attempt has succeeded
C24_Witness ==
    /\ pc[Caller] = "resolved"
    /\ attempt[Caller] = 3
    /\ Cardinality(Waits(Caller)) = 2
    /\ TheEv(Caller, "invoke", "timing", 3).at
          >= TheEv(Caller, "setTimeout", "retry", 2).at + 2 * BackoffUnitMs

----------------------------------------------------------------------------
(* The adapters of services/api_adapter.ts.  A string is the sequence of   *)
(* its characters; "LF" is the line feed and "CR" the carriage return.     *)

\* the longest player list of a game
MaxPlayers == 2
\* the longest list of games converted to CSV
MaxGames == 2

Active == <<"a", "c", "t", "i", "v", "e">>
Inactive == <<"i", "n", "a", "c", "t", "i", "v", "e">>
\* the titles of the games; one of them holds a comma
Titles == {<<"G", "o">>, <<" ">>, <<"a", ",", "b">>}
Players ==
    {[id |-> 1, name |-> <<"A", "n", "a">>, score |-> 10],
     [id |-> 2, name |-> <<"I", "v", "o">>, score |-> 0]}
SeqsUpTo(S, n) == UNION {[1..k -> S] : k \in 0..n}

\* LegacyGameAdapter.adaptPlayer / adaptPlayerToLegacy
adaptPlayer(lp) ==
    [id |-> lp.player_id, name |-> lp.player_name, score |-> lp.player_score]
adaptPlayerToLegacy(pl) ==
    [player_id |-> pl.id, player_name |-> pl.name, player_score |-> pl.score]

\* mutant: the players are left out
adaptGameNoPlayers(lg) ==
    [id |-> lg.game_id, title |-> lg.game_name, players |-> <<>>,
     status |-> IF lg.is_active THEN Active ELSE Inactive,
     createdAt |-> lg.creation_date]
\* LegacyGameAdapter.adaptGame
adaptGame(lg) ==
    [id |-> lg.game_id, title |-> lg.game_name,
     players |-> [i \in DOMAIN lg.player_list |-> adaptPlayer(lg.player_list[i])],
     status |-> IF lg.is_active THEN Active ELSE Inactive,
     createdAt |-> lg.creation_date]
\* LegacyGameAdapter.adaptToLegacy
adaptToLegacy(g) ==
    [game_id |-> g.id, game_name |-> g.title,
     player_list |-> [i \in DOMAIN g.players |-> adaptPlayerToLegacy(g.players[i])],
     is_active |-> (g.status = Active),
     creation_date |-> g.createdAt]

\* the games and legacy games the conversions are applied to
ModernGames(ids, statuses, lists) ==
    {[id |-> i, title |-> t, players |-> ps, status |-> st, createdAt |-> d] :
        i \in ids, t \in Titles, ps \in lists, st \in statuses,
        d \in {<<"2", "0", "2", "4">>}}
LegacyGames ==
    {[game_id |-> i, game_name |-> t, player_list |-> ps, is_active |-> a,
      creation_date |-> d] :
        i \in {12}, t \in Titles,
        ps \in SeqsUpTo({adaptPlayerToLegacy(pl) : pl \in Players}, MaxPlayers),
        a \in BOOLEAN, d \in {<<"2", "0", "2", "4">>}}

\* `${n}` of an integer
DigitChars == <<"0", "1", "2", "3", "4", "5", "6", "7", "8", "9">>
RECURSIVE Digits(_)
Digits(n) ==
    IF n < 10 THEN <<DigitChars[n + 1]>>
    ELSE Digits(n \div 10) \o <<DigitChars[(n % 10) + 1]>>
NumberToString(n) == IF n < 0 THEN <<"-">> \o Digits(-n) ELSE Digits(n)

\* what String.prototype.trim and parseInt take for white space
Whitespace == {" ", "TAB", "CR", "LF"}
\* parseInt: white space, a sign, then digits up to the first other character
RECURSIVE DropBlank(_)
DropBlank(str) ==
    IF str # <<>> /\ Head(str) \in Whitespace THEN DropBlank(Tail(str)) ELSE str
RECURSIVE DigitsValue(_, _)
DigitsValue(str, acc) ==
    IF str = <<>> \/ Head(str) \notin {DigitChars[k] : k \in 1..10}
    THEN acc
    ELSE DigitsValue(Tail(str),
                     10 * acc + (CHOOSE d \in 0..9 : DigitChars[d + 1] = Head(str)))
parseInt(str) ==
    LET t == DropBlank(str)
        signed == t # <<>> /\ Head(t) \in {"-", "+"}
        u == IF signed THEN Tail(t) ELSE t
    IN  IF u = <<>> \/ Head(u) \notin {DigitChars[k] : k \in 1..10}
        THEN "NaN"
        ELSE IF signed /\ Head(t) = "-"
             THEN 0 - DigitsValue(u, 0)
             ELSE DigitsValue(u, 0)

\* String.prototype.split with a one-character separator
Split(str, sep) ==
    LET at == {i \in DOMAIN str : str[i] = sep}
        \* the k-th piece lies between the (k-1)-th and the k-th separator
        Cut(k) == IF k = 0 THEN 0
                  ELSE IF k > Cardinality(at) THEN Len(str) + 1
                  ELSE CHOOSE i \in at : Cardinality({j \in at : j < i}) = k - 1
    IN  [k \in 1..(Cardinality(at) + 1) |->
            SubSeq(str, Cut(k - 1) + 1, Cut(k) - 1)]
\* line.trim() === ""
IsBlank(line) == \A i \in DOMAIN line : line[i] \in Whitespace
\* values[k] (zero-based) of a split line, undefined past its end
ValueAt(values, k) ==
    IF k + 1 <= Len(values) THEN values[k + 1] ELSE <<"undefined">>

\* headers.join(",")
\* DataFormatAdapter.jsonToCsv
RECURSIVE GameLines(_)
GameLines(games) ==
    IF games = <<>> THEN <<>>
    ELSE NumberToString(Head(games).id) \o <<",">> \o Head(games).title \o <<",">>
           \o Head(games).status \o <<",">> \o Head(games).createdAt \o <<"LF">>
           \o GameLines(Tail(games))
jsonToCsv(games) ==
    <<"i", "d", ",", "t", "i", "t", "l", "e", ",", "s", "t", "a", "t", "u", "s",
      ",", "c", "r", "e", "a", "t", "e", "d", "A", "t">>
       \o <<"LF">> \o GameLines(games)

\* the loop body of csvToJson
GameOfLine(line) ==
    LET values == Split(line, ",")
    IN  [id |-> parseInt(ValueAt(values, 0)), title |-> ValueAt(values, 1),
         players |-> <<>>, status |-> ValueAt(values, 2),
         createdAt |-> ValueAt(values, 3)]
\* mutant: the loop starts at the header line
csvToJsonFromHeader(csv) ==
    LET lines == Split(csv, "LF")
        Kept(line) == ~IsBlank(line)
        kept == SelectSeq(lines, Kept)
    IN  [i \in DOMAIN kept |-> GameOfLine(kept[i])]
\* DataFormatAdapter.csvToJson
csvToJson(csv) ==
    LET lines == Split(csv, "LF")
        Kept(line) == ~IsBlank(line)
        kept == SelectSeq(Tail(lines), Kept)
    IN  [i \in DOMAIN kept |-> GameOfLine(kept[i])]

\* a conversion is about to be applied to an argument: a legacy game that
\* goes to the new form and back, a game that goes to the legacy form and
\* back, a list of games that goes to CSV and back
InitConv ==
    /\ LoggerLoaded
    /\ CrudIdle
    /\ \E kind \in {"legacy", "modern", "csv"} :
         \E a \in (CASE kind = "legacy" -> LegacyGames
                     [] kind = "modern" ->
                          \* one status is none of the two the type names
                          ModernGames({12},
                                      {Active, Inactive,
                                       <<"d", "r", "a", "f", "t">>},
                                      SeqsUpTo(Players, MaxPlayers))
                     [] kind = "csv" ->
                          SeqsUpTo(ModernGames({-3, 0, 12}, {Active, Inactive},
                                               {<<>>, <<CHOOSE pl \in Players :
                                                          pl.id = 1>>}),
                                   MaxGames)) :
            conv = [kind |-> kind, stage |-> 0, arg |-> a, given |-> a,
                    mid |-> <<>>, back |-> <<>>]
    /\ adapterCall = NoAdapterCall
    /\ oldClientCalls = <<>>
    /\ maxRetries = DefaultMaxRetries
    /\ HttpIdle

\* a conversion returns: what it was given is in arg or mid, its result goes
\* to mid or back; it has called logger.info before and after
Converts(kind, stage, result, first, second) ==
    /\ conv.kind = kind
    /\ conv.stage = stage
    /\ conv' = IF stage = 0
               THEN [conv EXCEPT !.stage = 1, !.mid = result]
               ELSE [conv EXCEPT !.stage = 2, !.back = result]
    /\ logs' = info(info(logs, now, Text(first)), now, Text(second))
    /\ writers' = [i \in DOMAIN logs' |-> NoCall]
    /\ UNCHANGED <<httpVars, now, loggerVars, crudVars, adapterCall,
                   oldClientCalls>>

NextConv ==
    \* LegacyGameAdapter.adaptGame
    \/ Converts("legacy", 0, adaptGame(conv.arg),
                "Adaptiranje legacy igre", "Igra uspjesno adaptirana")
    \/ Converts("modern", 1, adaptGame(conv.mid),
                "Adaptiranje legacy igre", "Igra uspjesno adaptirana")
    \* LegacyGameAdapter.adaptToLegacy
    \/ Converts("modern", 0, adaptToLegacy(conv.arg),
                "Konverzija u legacy format", "Konverzija uspjesna")
    \/ Converts("legacy", 1, adaptToLegacy(conv.mid),
                "Konverzija u legacy format", "Konverzija uspjesna")
    \* DataFormatAdapter.jsonToCsv
    \/ Converts("csv", 0, jsonToCsv(conv.arg),
                "Pretvaranje JSON u CSV", "igre konvertirane u CSV")
    \* DataFormatAdapter.csvToJson
    \/ Converts("csv", 1, csvToJson(conv.mid),
                "Pretvaranje CSV u JSON", "igre konvertirane iz CSV-a")

ConvSpec == InitConv /\ [][NextConv]_vars

(* C25: The conversions of LegacyGameAdapter are mutually inverse: for     *)
(* every legacy game L, adaptToLegacy(adaptGame(L)) equals L field for     *)
(* field (id, name, active flag, creation date, and every player's id,     *)
(* name and score in the same order), and for every game G whose status is *)
(* "active" or "inactive", adaptGame(adaptToLegacy(G)) equals G; neither   *)
(* conversion modifies its argument.                                       *)
C25_AdapterRoundTrip ==
    /\ conv.kind \in {"legacy", "modern"} => conv.arg = conv.given
    /\ (conv.kind = "legacy" /\ conv.stage >= 1) =>
          /\ conv.mid.id = conv.given.game_id
          /\ conv.mid.status \in {Active, Inactive}
          /\ Len(conv.mid.players) = Len(conv.given.player_list)
    /\ (conv.kind = "legacy" /\ conv.stage = 2) =>
          /\ conv.back.game_id = conv.given.game_id
          /\ conv.back.game_name = conv.given.game_name
          /\ conv.back.is_active = conv.given.is_active
          /\ conv.back.creation_date = conv.given.creation_date
          /\ Len(conv.back.player_list) = Len(conv.given.player_list)
          /\ \A i \in DOMAIN conv.given.player_list :
                conv.back.player_list[i] = conv.given.player_list[i]
          /\ conv.back = conv.given
    /\ ( /\ conv.kind = "modern"
         /\ conv.stage = 2
         /\ conv.given.status \in {Active, Inactive} ) =>
          conv.back = conv.given

\* a legacy game with two players in the order Ivo, Ana has gone to the new
\* form and back
C25_Witness ==
    /\ conv.kind = "legacy"
    /\ conv.stage = 2
    /\ Len(conv.given.player_list) = 2
    /\ conv.given.player_list[1].player_id = 2
    /\ conv.given.is_active
    /\ conv.mid.status = Active
    /\ Len(logs) = 4

----------------------------------------------------------------------------
----------------------------------------------------------------------------
(* OldAPIAdapter: the modern client interface over a legacy client *)

\* the legacy method each modern operation is delegated to
LegacyOperation(op) ==
    CASE op = "fetchGame" -> "get_game"
      [] op = "saveGame" -> "post_game"
      [] op = "deleteGame" -> "remove_game"

\* mutant: a failure of the legacy call is rethrown as a new error
OldAPIAdapterResultWrapped(op, resp) ==
    IF resp.ok
    THEN Fulfilled(IF op = "fetchGame" THEN adaptGame(resp.data) ELSE NoData)
    ELSE Rejected([resp.err EXCEPT !.id = <<0, 0>>])
\* what the promise of an operation settles with: the adapted game or
\* nothing, or the error the awaited legacy promise rejected with
OldAPIAdapterResult(op, resp) ==
    IF resp.ok
    THEN Fulfilled(IF op = "fetchGame" THEN adaptGame(resp.data) ELSE NoData)
    ELSE Rejected(resp.err)

\* new OldAPIAdapter(oldClient)
NewOldAPIAdapter ==
    /\ adapterCall.pc = "idle"
    /\ adapterCall' = [adapterCall EXCEPT !.pc = "ready"]
    /\ logs' = info(logs, now, Text("OldAPIAdapter inicijaliziran"))
    /\ writers' = [i \in DOMAIN logs' |-> NoCall]
    /\ UNCHANGED <<httpVars, now, loggerVars, crudVars, conv, oldClientCalls>>

\* fetchGame(id), saveGame(game), deleteGame(id) up to the await: the first
\* info record, for saveGame the conversion with its two records, then the
\* call of the legacy method
AdapterCall(op, arg) ==
    /\ adapterCall.pc = "ready"
    /\ adapterCall' = [adapterCall EXCEPT !.pc = "awaiting", !.op = op,
                                          !.arg = arg]
    /\ logs' =
         CASE op = "fetchGame" ->
                info(logs, now,
                     Message("Dohvacanje igre preko adaptera: ID", "", "",
                             <<>>, arg))
           [] op = "saveGame" ->
                info(info(info(logs, now,
                               Text("Spremanje igre preko adaptera")),
                          now, Text("Konverzija u legacy format")),
                     now, Text("Konverzija uspjesna"))
           [] op = "deleteGame" ->
                info(logs, now,
                     Message("Brisanje igre preko adaptera: ID", "", "",
                             <<>>, arg))
    /\ writers' = [i \in DOMAIN logs' |-> NoCall]
    /\ oldClientCalls' =
         Append(oldClientCalls,
                [method |-> LegacyOperation(op),
                 arg |-> IF op = "saveGame" THEN adaptToLegacy(arg) ELSE arg])
    /\ UNCHANGED <<httpVars, now, loggerVars, crudVars, conv>>

\* the awaited legacy promise settles and the operation runs to its end:
\* after a failure nothing of the body runs
LegacySettles(resp) ==
    /\ adapterCall.pc = "awaiting"
    /\ adapterCall' =
         [adapterCall EXCEPT
             !.pc = "done",
             !.response = resp,
             !.outcome = OldAPIAdapterResult(adapterCall.op, resp)]
    /\ logs' =
         IF ~resp.ok THEN logs
         ELSE CASE adapterCall.op = "fetchGame" ->
                     info(info(info(logs, now,
                                    Text("Adaptiranje legacy igre")),
                               now, Text("Igra uspjesno adaptirana")),
                          now, Text("Igra uspjesno dohvacena i adaptirana"))
                [] adapterCall.op = "saveGame" ->
                     info(logs, now, Text("Igra uspjesno spremljena"))
                [] adapterCall.op = "deleteGame" ->
                     info(logs, now, Text("Igra uspjesno obrisana"))
    /\ writers' = [i \in DOMAIN logs' |-> NoCall]
    /\ UNCHANGED <<httpVars, now, loggerVars, crudVars, conv, oldClientCalls>>

NextAdapter ==
    \/ NewOldAPIAdapter
    \/ \E id \in {-3, 0, 12} : AdapterCall("fetchGame", id)
    \/ \E g \in ModernGames({12}, {Active, Inactive},
                            SeqsUpTo(Players, MaxPlayers)) :
         AdapterCall("saveGame", g)
    \/ \E id \in {-3, 0, 12} : AdapterCall("deleteGame", id)
    \/ \E data \in (IF adapterCall.op = "fetchGame" THEN LegacyGames
                     ELSE {NoData}) :
         LegacySettles([ok |-> TRUE, data |-> data, status |-> 200,
                        err |-> NoErr])
    \/ \E m \in {"not found", "legacy down"} :
         LegacySettles([ok |-> FALSE, data |-> "", status |-> 0,
                        err |-> TransportError(NoCall, 1, m)])

\* no adapter has been constructed: the initial state of the program
AdapterSpec == Init /\ [][NextAdapter]_vars

(* C27: OldAPIAdapter delegates each modern operation to exactly one call  *)
(* of the matching legacy operation: fetchGame to get_game with the same   *)
(* id, saveGame to post_game with adaptToLegacy(game), deleteGame to       *)
(* remove_game with the same id.  When the legacy call fails, the adapter  *)
(* rejects with that same failure, has written none of the three records   *)
(* that report an operation's success, and has made no second legacy call. *)
C27_AdapterDelegates ==
    adapterCall.pc \in {"awaiting", "done"} =>
        /\ Len(oldClientCalls) = 1
        /\ \/ /\ adapterCall.op = "fetchGame"
              /\ oldClientCalls[1] =
                   [method |-> "get_game", arg |-> adapterCall.arg]
           \/ /\ adapterCall.op = "saveGame"
              /\ oldClientCalls[1] =
                   [method |-> "post_game",
                    arg |-> adaptToLegacy(adapterCall.arg)]
           \/ /\ adapterCall.op = "deleteGame"
              /\ oldClientCalls[1] =
                   [method |-> "remove_game", arg |-> adapterCall.arg]
        /\ (adapterCall.pc = "done" /\ ~adapterCall.response.ok) =>
              /\ adapterCall.outcome.state = "rejected"
              /\ adapterCall.outcome.err = adapterCall.response.err
              /\ \A i \in DOMAIN logs :
                    logs[i].message.tmpl \notin
                        {"Igra uspjesno dohvacena i adaptirana",
                         "Igra uspjesno spremljena",
                         "Igra uspjesno obrisana"}

\* a saveGame whose post_game failed: the conversion's records are in the log
C27_Witness ==
    /\ adapterCall.pc = "done"
    /\ adapterCall.op = "saveGame"
    /\ adapterCall.arg.players # <<>>
    /\ ~adapterCall.response.ok
    /\ adapterCall.outcome.state = "rejected"
    /\ Len(logs) = 4

----------------------------------------------------------------------------
(* C28: After Logger.clearLogs() the log holds exactly one entry, the INFO *)
(* record "Logovi su obrisani" that clearLogs itself appends: every record *)
(* logged before the call is gone, and the log is never observed empty     *)
(* after clearLogs returns (a log that holds a record never becomes empty  *)
(* again).                                                                 *)
C28_ClearLogsLeavesOne ==
    /\ [](lastOp = "clearLogs" =>
            logs = <<[timestamp |-> now, level |-> "INFO",
                      message |-> Text("Logovi su obrisani")]>>)
    /\ [][logs # <<>> => logs' # <<>>]_vars

\* clearLogs has just returned, and a list handed out before it shows that
\* the log held two records then
C28_Witness ==
    /\ lastOp = "clearLogs"
    /\ snapshots # <<>>
    /\ Len(snapshots[1].stored) >= 2
    /\ Len(logs) = 1

(* C29: Logger.getLogs() returns a snapshot copy of all records in logging *)
(* order: the list it returns reads as the stored log of that moment;      *)
(* adding to, removing from or reordering a returned list does not change  *)
(* the logger's stored log; and records logged after the call (clearLogs'  *)
(* own among them) do not change what a list returned earlier reads as.    *)
C29_GetLogsSnapshot ==
    [][ /\ lastOp' = "getLogs" =>
              /\ Len(snapshots') = Len(snapshots) + 1
              /\ ContentOf(snapshots'[Len(snapshots')].list, logs') = logs
              /\ logs' = logs
        /\ lastOp' \in {"push", "pop", "reverse"} => logs' = logs
        /\ lastOp' \in {"info", "warn", "error", "debug", "clearLogs"} =>
              \A i \in DOMAIN snapshots :
                 ContentOf(snapshots'[i].list, logs') =
                    ContentOf(snapshots[i].list, logs)
      ]_vars

\* the holder has changed a returned list and the logger has logged since
\* the list was returned: list, log and the log of that moment all differ
C29_Witness ==
    /\ snapshots # <<>>
    /\ lastOp \in {"push", "pop", "reverse"}
    /\ snapshots[1].stored # <<>>
    /\ ContentOf(snapshots[1].list, logs) # snapshots[1].stored
    /\ logs # snapshots[1].stored
    /\ ContentOf(snapshots[1].list, logs) # logs

----------------------------------------------------------------------------
(* C30: The API base URL of a per-resource client is resolved exactly      *)
(* once, when its module is loaded, with the precedence: window.API_URL if *)
(* set and non-empty, else VITE_API_URL if set and non-empty, else         *)
(* 'http://localhost:3000/api'.  Once resolved it never changes, and every *)
(* request of the client is addressed under it: an assignment to           *)
(* window.API_URL made after the module has loaded does not change the URL *)
(* used by any later request.                                              *)
C30_BaseUrlResolvedOnce ==
    [][ /\ \A res \in {"games", "tournaments", "news", "teams"} :
              IF API_BASE_URL[res] = "unloaded"
              THEN API_BASE_URL'[res] \in
                      {"unloaded",
                       IF windowApiUrl # "" THEN windowApiUrl
                       ELSE IF viteApiUrl # "" THEN viteApiUrl
                       ELSE "http://localhost:3000/api"}
              ELSE API_BASE_URL'[res] = API_BASE_URL[res]
        /\ Len(axiosRequests') > Len(axiosRequests) =>
              LET request == axiosRequests'[Len(axiosRequests')]
              IN  /\ API_BASE_URL[request.res] # "unloaded"
                  /\ request.url[1] = API_BASE_URL[request.res]
      ]_vars

\* a request has gone out under the address resolved at load, while
\* window.API_URL has been given another value since
C30_Witness ==
    /\ axiosRequests # <<>>
    /\ windowApiUrl # ""
    /\ axiosRequests[1].url[1] # windowApiUrl
    /\ axiosRequests[1].url[1] = API_BASE_URL[axiosRequests[1].res]

====
